---- MODULE Spec2Model ----
(***************************************************************************)
(* AgentFlow core: the state model (per-field reducers), the node wrapper  *)
(* that turns a node result into a delta, the graph builder's edge wiring  *)
(* with its conditional dispatch, and run_workflow driving the compiled    *)
(* graph superstep by superstep.                                           *)
(*                                                                         *)
(* Strings are sequences of one-character strings so that str.lower() and  *)
(* the substring test `a in b` are computed, not assumed.  Python values   *)
(* of the dynamically typed fields are tagged records (None, str, int, dict)   *)
(* GraphState fields modelled: user_input, intent, text_result, db_result,  *)
(* final_output, tokens_used, metadata, errors, execution_path, outputs.   *)
(* cost behaves as tokens_used, current_node as execution_path and         *)
(* image_result/api_result as metadata.                                    *)
(***************************************************************************)
EXTENDS Integers, Sequences, FiniteSets, TLC

\* ------------------------------------------------------------------ bounds
\* largest token count one LLM call reports
MaxTokens == 4
\* longest node id / intent drawn for the dispatch function
MaxIdLen == 2
\* longest target list drawn for the dispatch function
MaxTargets == 2
\* longest elapsed time of one run that is told apart, in seconds
MaxElapsed == 2
\* tokens_used a caller may hand in with the initial state
PresetTokens == 5

\* the items of a sequence
Range(seq) == {seq[i] : i \in 1..Len(seq)}

\* ----------------------------------------------------------------- strings
\* str.lower() on one character
LowerChar(c) ==
    CASE c = "A" -> "a"
      [] c = "B" -> "b"
      [] OTHER -> c

\* str.lower()
Lower(s) == [i \in 1..Len(s) |-> LowerChar(s[i])]

\* Python `sub in s` for strings
Contains(sub, s) ==
    \E i \in 0..(Len(s) - Len(sub)) : SubSeq(s, i + 1, i + Len(sub)) = sub

\* ------------------------------------------------------------------ values
NoItems == [key \in {} |-> 0]
PyNone == [k |-> "none", s |-> <<>>, n |-> 0, d |-> NoItems]
PyStr(x) == [k |-> "str", s |-> x, n |-> 0, d |-> NoItems]
PyInt(i) == [k |-> "int", s |-> <<>>, n |-> i, d |-> NoItems]
PyDict(m) == [k |-> "dict", s |-> <<>>, n |-> 0, d |-> m]

\* Python truthiness of a value
Truthy(v) ==
    CASE v.k = "none" -> FALSE
      [] v.k = "str" -> v.s # <<>>
      [] v.k = "int" -> v.n # 0
      [] v.k = "dict" -> DOMAIN v.d # {}

EmptyMap == [key \in {} |-> PyNone]

\* dict.get(key, default)
Get(d, key, default) == IF key \in DOMAIN d THEN d[key] ELSE default

\* ---------------------------------------------------------------- reducers
\* state.py merge_dict: {**left, **right}
merge_dict(left, right) ==
    [key \in (DOMAIN left) \cup (DOMAIN right) |->
        IF key \in DOMAIN right THEN right[key] ELSE left[key]]

\* state.py replace_value
replace_value(left, right) == right

\* keep_first that lets a later write win
keep_first_overwrite(left, right) == right

\* state.py keep_first: left if left else right
keep_first(left, right) == IF Truthy(left) THEN left ELSE right

\* a sum field that keeps the last increment only
int_add_last(left, right) == right

\* operator.add on int (tokens_used)
int_add(left, right) == left + right

\* a list reducer that puts the new items in front
list_add_front(left, right) == right \o left

\* operator.add on list (errors, execution_path)
list_add(left, right) == left \o right

\* GraphState.__annotations__
GraphStateKeys ==
    {"user_input", "intent", "text_result", "image_result", "db_result",
     "api_result", "final_output", "tokens_used", "cost", "metadata",
     "errors", "execution_path", "current_node", "outputs"}

KeepFirstFields == {"user_input", "intent", "text_result", "final_output"}
SumFields == {"tokens_used"}
AppendFields == {"db_result", "errors", "execution_path"}
MergeMapFields == {"metadata", "outputs"}

\* the reducer GraphState binds to a field (Annotated[..., reducer])
Reducer(f, old, new) ==
    CASE f \in KeepFirstFields -> keep_first(old, new)
      [] f \in SumFields -> int_add(old, new)
      [] f \in AppendFields -> list_add(old, new)
      [] f \in MergeMapFields -> merge_dict(old, new)

\* one delta merged into the accumulated state, field by field
ApplyDelta(st, d) ==
    [f \in DOMAIN st |->
        IF f \in DOMAIN d THEN Reducer(f, st[f], d[f]) ELSE st[f]]

\* deltas merged one after the other, in the order of the sequence
RECURSIVE ApplyAll(_, _)
ApplyAll(st, ws) ==
    IF ws = <<>> THEN st
    ELSE ApplyAll(ApplyDelta(st, Head(ws).delta), Tail(ws))

\* ------------------------------------------------------------------- state
\* state.py create_initial_state (no kwargs)
create_initial_state(user_input) ==
    [user_input |-> user_input,
     intent |-> PyStr(<<>>),
     text_result |-> PyStr(<<>>),
     db_result |-> <<>>,
     final_output |-> PyNone,
     tokens_used |-> 0,
     metadata |-> EmptyMap,
     errors |-> <<>>,
     execution_path |-> <<>>,
     outputs |-> EmptyMap]

\* state.py merge_state: known keys replace, custom keys go to outputs,
\* and the outputs entry is always the rebuilt map
merge_state(base, updates) ==
    LET custom == (DOMAIN updates) \ GraphStateKeys
        new_outputs ==
            [key \in (DOMAIN base.outputs) \cup custom |->
                IF key \in custom THEN updates[key] ELSE base.outputs[key]]
    IN  [f \in DOMAIN base |->
            IF f = "outputs" THEN new_outputs
            ELSE IF f \in DOMAIN updates THEN updates[f]
            ELSE base[f]]

\* state.py add_tokens
add_tokens(st, tokens) ==
    merge_state(st, [tokens_used |-> Get(st, "tokens_used", 0) + tokens])

\* executor.py _prepare_initial_state
prepare_initial_state(initial_state) ==
    LET base == create_initial_state(Get(initial_state, "user_input", PyStr(<<>>)))
    IN  [f \in (DOMAIN base) \cup (DOMAIN initial_state) |->
            IF f \in DOMAIN initial_state THEN initial_state[f] ELSE base[f]]

\* ----------------------------------------------------------------- wrapper
\* base_node.py create_node_wrapper.wrapper: the delta of one node call
ChangedKeys(st, result) ==
    {key \in DOMAIN result :
        /\ key # "execution_path"
        /\ IF key = "errors"
             THEN \E i \in 1..Len(result[key]) :
                     \A j \in 1..Len(Get(st, "errors", <<>>)) :
                         st.errors[j] # result[key][i]
           ELSE IF key = "tokens_used"
             THEN result[key] - Get(st, key, 0) > 0
           ELSE IF key \in DOMAIN st THEN st[key] # result[key]
           ELSE result[key] # PyNone}

\* a wrapper that returns the whole result as its delta
wrapper_full_snapshot(node_id, st, result) ==
    [key \in (DOMAIN result) \cup {"execution_path"} |->
        IF key = "execution_path" THEN <<node_id>> ELSE result[key]]

\* a wrapper that reports the running token total instead of the increment
wrapper_running_total(node_id, st, result) ==
    [key \in ChangedKeys(st, result) \cup {"execution_path"} |->
        CASE key = "execution_path" -> <<node_id>>
          [] key = "errors" ->
                SelectSeq(result[key],
                          LAMBDA e : \A j \in 1..Len(Get(st, "errors", <<>>)) :
                                        st.errors[j] # e)
          [] OTHER -> result[key]]

wrapper(node_id, st, result) ==
    [key \in ChangedKeys(st, result) \cup {"execution_path"} |->
        CASE key = "execution_path" -> <<node_id>>
          [] key = "errors" ->
                SelectSeq(result[key],
                          LAMBDA e : \A j \in 1..Len(Get(st, "errors", <<>>)) :
                                        st.errors[j] # e)
          [] key = "tokens_used" -> result[key] - Get(st, key, 0)
          [] OTHER -> result[key]]

\* ---------------------------------------------------------------- node ids
id_start == <<"s", "t", "a", "r", "t">>
id_router == <<"r", "o", "u", "t", "e", "r">>
id_routeA == <<"r", "o", "u", "t", "e", "A">>
id_routeB == <<"r", "o", "u", "t", "e", "B">>
id_brA == <<"b", "r", "A">>
id_brB == <<"b", "r", "B">>
id_brC == <<"b", "r", "C">>
id_back == <<"b", "a", "c", "k">>
id_end == <<"e", "n", "d">>
id_agg == <<"a", "g", "g">>
id_llmU == <<"l", "l", "m", "U">>
id_sel == <<"s", "e", "l">>
id_db1 == <<"d", "b", "1">>
id_db2 == <<"d", "b", "2">>

\* langgraph END
END == <<"_", "_", "e", "n", "d", "_", "_">>

\* input_node.py: the `validate` rules of an input node; a rule that is
\* absent is FALSE / 0
NoRules == [required |-> FALSE, min_length |-> 0, max_length |-> 0]

\* node metadata with the defaults the node factories read through
\* get_metadata_value; "" and <<>> stand for a key that is absent
DefaultMeta ==
    [input_key |-> "user_input", output_key |-> "", routes |-> <<>>,
     default_intent |-> <<"u", "n", "k", "n", "o", "w", "n">>,
     prompt |-> <<>>, strategy |-> "", select_key |-> "text_result",
     source_keys |-> <<"text_result">>, include_metadata |-> TRUE,
     validate |-> NoRules, query |-> <<>>, source_id |-> ""]

Node(id, type, meta) == [id |-> id, type |-> type, metadata |-> meta]
Edge(from, to) == [from |-> from, to |-> to, condition |-> ""]

\* a QueueModel: id and the two node ids it connects
Queue(id, from, to) == [id |-> id, from |-> from, to |-> to]

\* a SourceModel: id, kind and the config keys the validator reads (model
\* stands for model / model_name, connection_string_env for
\* connection_string_env / connection_string)
Source(id, kind, model, connection_string_env) ==
    [id |-> id, kind |-> kind,
     config |-> [model |-> model,
                 connection_string_env |-> connection_string_env]]

\* start -> router -> {routeA, routeB}
WorkflowRoute ==
    [nodes |-> <<
        Node(id_start, "input", DefaultMeta),
        Node(id_router, "router",
             [DefaultMeta EXCEPT !.routes =
                <<[intent |-> id_routeA, keywords |-> <<<<"a">>>>],
                  [intent |-> id_routeB, keywords |-> <<<<"b">>>>]>>]),
        Node(id_routeA, "llm", DefaultMeta),
        Node(id_routeB, "llm", DefaultMeta)>>,
     edges |-> <<Edge(id_start, <<id_router>>),
                 Edge(id_router, <<id_routeA, id_routeB>>)>>,
     queues |-> <<>>,
     sources |-> <<>>,
     start_node |-> id_start]

\* start -> [brA, brB] -> agg : two branches fan out and rejoin
WorkflowFan ==
    [nodes |-> <<
        Node(id_start, "input", DefaultMeta),
        Node(id_brA, "llm", [DefaultMeta EXCEPT !.output_key = "summary"]),
        Node(id_brB, "llm", DefaultMeta),
        Node(id_agg, "aggregator",
             [DefaultMeta EXCEPT !.source_keys = <<"text_result", "summary">>])>>,
     edges |-> <<Edge(id_start, <<id_brA, id_brB>>),
                 Edge(id_brA, <<id_agg>>),
                 Edge(id_brB, <<id_agg>>)>>,
     queues |-> <<>>,
     sources |-> <<>>,
     start_node |-> id_start]

\* start -> llmU -> sel : a sequential run; llmU writes user_input
WorkflowSeq ==
    [nodes |-> <<
        Node(id_start, "input", DefaultMeta),
        Node(id_llmU, "llm",
             [DefaultMeta EXCEPT !.output_key = "user_input",
                                 !.prompt = <<"p">>]),
        Node(id_sel, "aggregator",
             [DefaultMeta EXCEPT !.strategy = "select",
                                 !.include_metadata = FALSE])>>,
     edges |-> <<Edge(id_start, <<id_llmU>>),
                 Edge(id_llmU, <<id_sel>>)>>,
     queues |-> <<>>,
     sources |-> <<>>,
     start_node |-> id_start]

\* start -> db1 -> db2 : the input is required, two queries on one source
WorkflowDb ==
    [nodes |-> <<
        Node(id_start, "input",
             [DefaultMeta EXCEPT !.validate = [NoRules EXCEPT !.required = TRUE]]),
        Node(id_db1, "db", [DefaultMeta EXCEPT !.query = <<"q">>,
                                               !.source_id = "pg"]),
        Node(id_db2, "db", [DefaultMeta EXCEPT !.query = <<"q">>,
                                               !.source_id = "pg"])>>,
     edges |-> <<Edge(id_start, <<id_db1>>),
                 Edge(id_db1, <<id_db2>>)>>,
     queues |-> <<>>,
     sources |-> <<Source("pg", "db", "", "DATABASE_URL")>>,
     start_node |-> id_start]

\* start -> [brA, brB], brA -> agg, brB -> brC -> agg : the branches that
\* rejoin at agg have one and two steps; brA copies the input to summary,
\* brB and brC are llm steps that write the same field
WorkflowUneven ==
    [nodes |-> <<
        Node(id_start, "input", DefaultMeta),
        Node(id_brA, "input", [DefaultMeta EXCEPT !.output_key = "summary"]),
        Node(id_brB, "llm", DefaultMeta),
        Node(id_brC, "llm", DefaultMeta),
        Node(id_agg, "aggregator",
             [DefaultMeta EXCEPT !.source_keys = <<"text_result", "summary">>])>>,
     edges |-> <<Edge(id_start, <<id_brA, id_brB>>),
                 Edge(id_brA, <<id_agg>>),
                 Edge(id_brB, <<id_brC>>),
                 Edge(id_brC, <<id_agg>>)>>,
     queues |-> <<>>,
     sources |-> <<>>,
     start_node |-> id_start]

\* start -> back -> start : the edges form a cycle
WorkflowLoop ==
    [nodes |-> <<
        Node(id_start, "input", DefaultMeta),
        Node(id_back, "input", DefaultMeta)>>,
     edges |-> <<Edge(id_start, <<id_back>>),
                 Edge(id_back, <<id_start>>)>>,
     queues |-> <<>>,
     sources |-> <<>>,
     start_node |-> id_start]

\* start -> end : the second node has the id "end"
WorkflowEnd ==
    [nodes |-> <<
        Node(id_start, "input", DefaultMeta),
        Node(id_end, "aggregator",
             [DefaultMeta EXCEPT !.strategy = "select",
                                 !.include_metadata = FALSE])>>,
     edges |-> <<Edge(id_start, <<id_end>>)>>,
     queues |-> <<>>,
     sources |-> <<>>,
     start_node |-> id_start]

Workflows ==
    {WorkflowRoute, WorkflowFan, WorkflowSeq, WorkflowDb, WorkflowUneven,
     WorkflowLoop, WorkflowEnd}

NodeOf(spec, id) ==
    LET i == CHOOSE j \in 1..Len(spec.nodes) : spec.nodes[j].id = id
    IN  spec.nodes[i]

\* ----------------------------------------------------------------- builder
\* a dispatch function that defaults to the last listed target
routing_function_last_default(to_nodes, st) ==
    LET intent == Get(st, "intent", PyStr(<<>>)).s
        hits == {i \in 1..Len(to_nodes) :
                    \/ Lower(intent) = Lower(to_nodes[i])
                    \/ Contains(Lower(intent), Lower(to_nodes[i]))}
    IN  IF hits # {}
          THEN to_nodes[CHOOSE i \in hits : \A j \in hits : i <= j]
        ELSE IF to_nodes # <<>> THEN to_nodes[Len(to_nodes)]
        ELSE END

\* a dispatch function whose containment test is the other way round
routing_function_reversed(to_nodes, st) ==
    LET intent == Get(st, "intent", PyStr(<<>>)).s
        hits == {i \in 1..Len(to_nodes) :
                    \/ Lower(intent) = Lower(to_nodes[i])
                    \/ Contains(Lower(to_nodes[i]), Lower(intent))}
    IN  IF hits # {}
          THEN to_nodes[CHOOSE i \in hits : \A j \in hits : i <= j]
        ELSE IF to_nodes # <<>> THEN to_nodes[1]
        ELSE END

\* builder.py routing_function of _add_conditional_edge
routing_function(to_nodes, st) ==
    LET intent == Get(st, "intent", PyStr(<<>>)).s
        hits == {i \in 1..Len(to_nodes) :
                    \/ Lower(intent) = Lower(to_nodes[i])
                    \/ Contains(Lower(intent), Lower(to_nodes[i]))}
    IN  IF hits # {}
          THEN to_nodes[CHOOSE i \in hits : \A j \in hits : i <= j]
        ELSE IF to_nodes # <<>> THEN to_nodes[1]
        ELSE END

\* builder.py _add_edges: which edges become conditional
IsConditional(spec, e) ==
    \/ NodeOf(spec, e.from).type = "router" /\ Len(e.to) > 1
    \/ e.condition # ""

\* an edge construction that wires every node without outgoing edge to END
SimpleEdges_all_terminal(spec) ==
    LET EdgeIdx == 1..Len(spec.edges)
        with_edges == {spec.edges[i].from : i \in EdgeIdx}
        plain == {i \in EdgeIdx : ~IsConditional(spec, spec.edges[i])}
    IN  UNION {
            {<<spec.edges[i].from,
               IF \/ Lower(spec.edges[i].to[j]) = <<"e", "n", "d">>
                  \/ spec.edges[i].to[j] = END
                 THEN END ELSE spec.edges[i].to[j]>> :
                 j \in 1..Len(spec.edges[i].to)} : i \in plain}
        \cup
        {<<spec.nodes[i].id, END>> :
            i \in {j \in 1..Len(spec.nodes) :
                     spec.nodes[j].id \notin with_edges}}

\* builder.py _add_edges: builder.add_edge calls
SimpleEdges(spec) ==
    LET EdgeIdx == 1..Len(spec.edges)
        with_edges == {spec.edges[i].from : i \in EdgeIdx}
        plain == {i \in EdgeIdx : ~IsConditional(spec, spec.edges[i])}
    IN  UNION {
            {<<spec.edges[i].from,
               IF \/ Lower(spec.edges[i].to[j]) = <<"e", "n", "d">>
                  \/ spec.edges[i].to[j] = END
                 THEN END ELSE spec.edges[i].to[j]>> :
                 j \in 1..Len(spec.edges[i].to)} : i \in plain}
        \cup
        {<<spec.nodes[i].id, END>> :
            i \in {j \in 1..Len(spec.nodes) :
                     /\ spec.nodes[j].id \notin with_edges
                     /\ spec.nodes[j].type = "aggregator"}}

\* builder.py _add_edges: _add_conditional_edge calls
ConditionalEdges(spec) ==
    {[from |-> spec.edges[i].from, to_nodes |-> spec.edges[i].to] :
        i \in {j \in 1..Len(spec.edges) : IsConditional(spec, spec.edges[j])}}

\* the nodes the compiled graph schedules after node_id completed, the
\* dispatch function reading the state with node_id's delta merged
Successors(spec, node_id, merged) ==
    ({e[2] : e \in {x \in SimpleEdges(spec) : x[1] = node_id}}
     \cup
     {routing_function(c.to_nodes, merged) :
        c \in {x \in ConditionalEdges(spec) : x.from = node_id}})
    \ {END}

\* ------------------------------------------------------------------- nodes
\* router_node.py _route_by_keyword
route_by_keyword(input_value, routes, default_intent) ==
    LET hits == {i \in 1..Len(routes) :
                    /\ routes[i].intent # <<>>
                    /\ \E j \in 1..Len(routes[i].keywords) :
                          Contains(Lower(routes[i].keywords[j]),
                                   Lower(input_value))}
    IN  IF hits # {}
          THEN routes[CHOOSE i \in hits : \A j \in hits : i <= j].intent
        ELSE default_intent

\* router_node.py create_router_node.execute (keyword strategy)
execute_router(node, st) ==
    LET input_value == Get(st, node.metadata.input_key, PyStr(<<>>)).s
        intent == route_by_keyword(input_value, node.metadata.routes,
                                   node.metadata.default_intent)
    IN  merge_state(st, [intent |-> PyStr(intent)])

\* input_node.py _validate_input raises ValueError
validate_input_raises(value, rules) ==
    \/ rules.min_length # 0 /\ value.k = "str"
          /\ Len(value.s) < rules.min_length
    \/ rules.max_length # 0 /\ value.k = "str"
          /\ Len(value.s) > rules.max_length
    \/ rules.required /\ ~Truthy(value)

\* input_node.py create_input_node.execute (no transform), once
\* _validate_input has passed
execute_input(node, st) ==
    LET input_key == node.metadata.input_key
        output_key == IF node.metadata.output_key = "" THEN input_key
                      ELSE node.metadata.output_key
        input_value == Get(st, input_key, PyStr(<<>>))
        new_meta == merge_dict(Get(st, "metadata", EmptyMap),
                       [input_processed |-> PyInt(1),
                        input_node_id |-> PyStr(node.id)])
        keys == (IF output_key # input_key THEN {output_key} ELSE {})
                \cup {"metadata"}
    IN  merge_state(st, [key \in keys |->
                            IF key = "metadata" THEN new_meta
                            ELSE input_value])

\* what the external model may answer: text and total_token_count
LLMTexts == {<<>>, <<"h", "i">>, <<"y", "o">>}
TokenCounts == {0, MaxTokens - 1, MaxTokens}

\* llm_node.py create_llm_node.execute: the prompt it builds
final_prompt(node, st) ==
    IF node.metadata.prompt # <<>> THEN PyStr(node.metadata.prompt)
    ELSE Get(st, "user_input", PyStr(<<>>))

\* llm_node.py create_llm_node.execute after _call_llm returned
execute_llm(node, st, text, tokens) ==
    LET output_key == IF node.metadata.output_key = "" THEN "text_result"
                      ELSE node.metadata.output_key
    IN  add_tokens(merge_state(st, [key \in {output_key} |-> PyStr(text)]),
                   tokens)

\* the rows a query can return
DbRows == {<<>>, <<"r1">>, <<"r1", "r2">>}

\* db_node.py create_db_node.execute after _execute_query returned
execute_db(node, st, results) ==
    LET output_key == IF node.metadata.output_key = "" THEN "db_result"
                      ELSE node.metadata.output_key
    IN  merge_state(st, [key \in {output_key} |-> results])

\* aggregator_node.py: value is None or "" or {} (the emptiness test)
IsEmptyValue(v) == v = PyNone \/ v = PyStr(<<>>) \/ v = PyDict(NoItems)

\* aggregator_node.py _aggregate_merge
aggregate_merge(st, source_keys) ==
    LET Value(key) ==
            IF IsEmptyValue(Get(st, key, PyNone))
              THEN Get(st.outputs, key, PyNone)
            ELSE Get(st, key, PyNone)
        keys == {source_keys[i] : i \in 1..Len(source_keys)}
    IN  PyDict([key \in {x \in keys : ~IsEmptyValue(Value(x))} |-> Value(key)])

\* aggregator_node.py create_aggregator_node.execute (merge and select)
execute_aggregator(node, st) ==
    LET result == IF node.metadata.strategy = "select"
                    THEN Get(st, node.metadata.select_key, PyNone)
                  ELSE aggregate_merge(st, node.metadata.source_keys)
        final_result ==
            IF node.metadata.include_metadata
              THEN PyDict([result |-> result,
                           execution_path |-> Get(st, "execution_path", <<>>),
                           tokens_used |-> Get(st, "tokens_used", 0)])
            ELSE result
        output_key == IF node.metadata.output_key = "" THEN "final_output"
                      ELSE node.metadata.output_key
    IN  merge_state(st, [key \in {output_key} |-> final_result])

\* ------------------------------------------------------------------ engine
VARIABLES
    wf,             \* the WorkflowSpec the graph was built from
    initial_state,  \* run_workflow's initial_state argument
    state,          \* run_workflow's local `state` (the prepared state)
    status,         \* Pending, Running, Succeeded, Failed
    channels,       \* the state graph.invoke has accumulated
    active,         \* nodes of the current superstep still to complete
    writes,         \* deltas returned in this superstep, completion order
    nextNodes,      \* nodes the completed nodes dispatched to
    result,         \* what run_workflow returned
    error,          \* the WorkflowExecutionError run_workflow raised
    exec_status,    \* registry record of this execution
    log,            \* node_completed / node_failed events, in order
    timeout,        \* run_workflow's timeout argument, 0 for None
    clock,          \* seconds elapsed since start_time
    step,           \* supersteps graph.invoke has begun
    rt,             \* one call of the conditional dispatch function
    hp,             \* one call of merge_state on heap objects
    bd,             \* the source registry and the calls that compile a spec
    vd,             \* one call of the validator on a spec document
    rg,             \* the registry module under concurrent callers
    bt              \* one call of run_workflow_batch

vars == <<wf, initial_state, state, status, channels, active, writes,
          nextNodes, result, error, exec_status, log, timeout, clock,
          step, rt, hp, bd, vd, rg, bt>>

engineVars == <<wf, initial_state, state, status, channels, active, writes,
                nextNodes, result, error, exec_status, log, timeout, clock,
                step>>

UserInputs == {PyStr(<<>>), PyStr(<<"A">>), PyStr(<<"b">>), PyStr(<<"z">>)}

\* the initial_state dictionaries a caller passes to run_workflow
InitialStates ==
    {[user_input |-> u] : u \in UserInputs}
    \cup {[user_input |-> u, intent |-> PyStr(id_routeA)] : u \in UserInputs}
    \cup {[user_input |-> u, tokens_used |-> PresetTokens] : u \in UserInputs}
    \cup {[execution_path |-> <<<<"x">>>>]}
    \cup {[user_input |-> PyStr(<<"b">>), topic |-> PyStr(<<"z">>)]}

BlankState == create_initial_state(PyStr(<<>>))

RouteIdle == [targets |-> <<>>, intent |-> <<>>, choice |-> <<>>,
              called |-> FALSE]

\* no merge_state call on heap objects has been made
HeapIdle == [called |-> FALSE, before |-> <<>>, after |-> <<>>, base |-> 0,
             updates |-> NoItems, ret |-> 0]

\* the registry holds no source and nothing was compiled
BuildIdle == [registry |-> NoItems, calls |-> <<>>, executions |-> 0]

\* the validator was not called
ValidateIdle == [called |-> "", raw |-> <<>>, raised |-> FALSE,
                 errors |-> <<>>]

\* registry.py: the callers of the registry module
Threads == {1, 2}

\* registry.py _sources_lock, _graphs_lock, _executions_lock
LockNames == {"sources", "graphs", "executions"}

\* a caller that is not inside a registry function
IdleThread == [op |-> "", id |-> "", config |-> NoItems, seen |-> FALSE,
               before |-> NoItems, rest |-> <<>>, within |-> ""]

\* registry.py module state after import: empty dictionaries, free locks
RegistryIdle ==
    [data |-> [sources |-> NoItems, executions |-> NoItems],
     lock |-> [l \in LockNames |-> 0],
     th |-> [t \in Threads |-> IdleThread],
     started |-> 0,
     history |-> <<>>]

\* run_workflow_batch was not called
BatchIdle == [called |-> FALSE, initial_states |-> <<>>, kwargs |-> NoItems,
              runs |-> <<>>, results |-> <<>>, returned |-> FALSE]

\* the timeout argument of run_workflow: None (0) or a number of seconds
Timeouts == {0, MaxElapsed - 1}

\* the exception a failing step is left with
NoCause == [class |-> "", node_id |-> <<>>, node_type |-> ""]

NoError == [raised |-> FALSE, class |-> "", node_id |-> <<>>,
            partial_state |-> BlankState, cause |-> NoCause]

Init ==
    /\ wf \in Workflows
    /\ initial_state \in InitialStates
    /\ timeout \in Timeouts
    /\ state = BlankState
    /\ status = "Pending"
    /\ channels = BlankState
    /\ active = {}
    /\ writes = <<>>
    /\ nextNodes = {}
    /\ result = BlankState
    /\ error = NoError
    /\ exec_status = "none"
    /\ log = <<>>
    /\ clock = 0
    /\ step = 0
    /\ rt = RouteIdle
    /\ hp = HeapIdle
    /\ bd = BuildIdle
    /\ vd = ValidateIdle
    /\ rg = RegistryIdle
    /\ bt = BatchIdle

\* the supersteps graph.invoke(state) runs at most when no config is passed
recursion_limit == 25

\* graph.invoke maps the input onto the channels of the GraphState schema
InputChannels(st) == [f \in DOMAIN BlankState |-> st[f]]

\* run_workflow up to the call of graph.invoke; the timeout goes into the
\* metadata of the execution record and nowhere else
RunWorkflowStart ==
    /\ status = "Pending"
    /\ state' = prepare_initial_state(initial_state)
    /\ exec_status' = "running"
    /\ status' = "Running"
    /\ channels' = InputChannels(state')
    /\ active' = {wf.start_node}
    /\ writes' = <<>>
    /\ nextNodes' = {}
    /\ step' = 1
    /\ UNCHANGED <<wf, initial_state, result, error, log, timeout, clock,
                   rt, hp, bd, vd, rg, bt>>

\* the results execute_fn can return for a node, with the token count the
\* node reports
Results(node, st) ==
    CASE node.type = "input" ->
            IF validate_input_raises(
                   Get(st, node.metadata.input_key, PyStr(<<>>)),
                   node.metadata.validate)
              THEN {}
            ELSE {[result |-> execute_input(node, st), tokens |-> 0]}
      [] node.type = "router" ->
            {[result |-> execute_router(node, st), tokens |-> 0]}
      [] node.type = "aggregator" ->
            {[result |-> execute_aggregator(node, st), tokens |-> 0]}
      [] node.type = "llm" ->
            IF ~Truthy(final_prompt(node, st)) THEN {}
            ELSE {[result |-> execute_llm(node, st, text, tokens),
                   tokens |-> tokens] :
                     text \in LLMTexts, tokens \in TokenCounts}
      [] node.type = "db" ->
            IF node.metadata.query = <<>> THEN {}
            ELSE {[result |-> execute_db(node, st, rows), tokens |-> 0] :
                     rows \in DbRows}

\* the exceptions execute_fn can raise: an input node's ValueError from
\* _validate_input, the NodeExecutionError of an llm or db node (nothing to
\* send, or the call to the model / the database failed)
Failures(node, st) ==
    CASE node.type = "input" ->
            IF validate_input_raises(
                   Get(st, node.metadata.input_key, PyStr(<<>>)),
                   node.metadata.validate)
              THEN {[class |-> "ValueError", node_id |-> <<>>,
                     node_type |-> ""]}
            ELSE {}
      [] node.type \in {"llm", "db"} ->
            {[class |-> "NodeExecutionError", node_id |-> node.id,
              node_type |-> node.type]}
      [] OTHER -> {}

\* execute_fn can raise
CanRaise(node, st) == Failures(node, st) # {}

\* one wrapped node runs on the superstep's snapshot and returns its delta
NodeComplete(node_id) ==
    /\ status = "Running"
    /\ node_id \in active
    /\ \E r \in Results(NodeOf(wf, node_id), channels) :
         LET delta == wrapper(node_id, channels, r.result)
         IN  /\ writes' = Append(writes, [node |-> node_id, delta |-> delta,
                                          result |-> r.result,
                                          tokens |-> r.tokens])
             /\ nextNodes' = nextNodes \cup
                    Successors(wf, node_id, ApplyDelta(channels, delta))
             /\ log' = Append(log, [event |-> "node_completed",
                                    node |-> node_id, tokens |-> r.tokens,
                                    delta |-> delta])
    /\ active' = active \ {node_id}
    /\ UNCHANGED <<wf, initial_state, state, status, channels, result, error,
                   exec_status, timeout, clock, step, rt, hp, bd, vd, rg, bt>>

\* a run that goes on after a step failed: the failure is logged and the
\* step stays scheduled
NodeFail_retry(node_id) ==
    /\ status = "Running"
    /\ node_id \in active
    /\ CanRaise(NodeOf(wf, node_id), channels)
    /\ Len(log) < 4
    /\ log' = Append(log, [event |-> "node_failed", node |-> node_id,
                           tokens |-> 0, delta |-> NoItems])
    /\ UNCHANGED <<wf, initial_state, state, status, channels, active, writes,
                   nextNodes, result, error, exec_status, timeout, clock,
                   step, rt, hp, bd, vd, rg, bt>>

\* a wrapped node raises: the wrapper logs node_failed and re-raises the
\* exception as it is, graph.invoke raises, and run_workflow's except clause
\* records the failure and raises WorkflowExecutionError (node_id not set)
NodeFail(node_id) ==
    /\ status = "Running"
    /\ node_id \in active
    /\ CanRaise(NodeOf(wf, node_id), channels)
    /\ log' = Append(log, [event |-> "node_failed", node |-> node_id,
                           tokens |-> 0, delta |-> NoItems])
    /\ exec_status' = "failed"
    /\ \E exc \in Failures(NodeOf(wf, node_id), channels) :
          error' = [raised |-> TRUE, class |-> "WorkflowExecutionError",
                    node_id |-> <<>>, partial_state |-> state,
                    cause |-> exc]
    /\ status' = "Failed"
    /\ UNCHANGED <<wf, initial_state, state, channels, active, writes,
                   nextNodes, result, timeout, clock, step, rt, hp, bd, vd, rg, bt>>

\* every node of the superstep completed: the deltas are merged through the
\* reducers and the dispatched nodes form the next superstep, as long as
\* graph.invoke has supersteps left
SuperstepEnd ==
    /\ status = "Running"
    /\ active = {}
    /\ nextNodes # {}
    /\ step < recursion_limit
    /\ channels' = ApplyAll(channels, writes)
    /\ active' = nextNodes
    /\ nextNodes' = {}
    /\ writes' = <<>>
    /\ step' = step + 1
    /\ UNCHANGED <<wf, initial_state, state, status, result, error,
                   exec_status, log, timeout, clock, rt, hp, bd, vd, rg, bt>>

\* a graph.invoke that never gives up
OutOfSteps_unlimited ==
    /\ status = "Running"
    /\ step > recursion_limit
    /\ UNCHANGED vars

\* graph.invoke is called without config, so it runs under the engine's
\* default recursion limit: when nodes are still dispatched after that many
\* supersteps it raises, and run_workflow's except clause records the
\* failure and raises WorkflowExecutionError
OutOfSteps ==
    /\ status = "Running"
    /\ active = {}
    /\ nextNodes # {}
    /\ step >= recursion_limit
    /\ exec_status' = "failed"
    /\ error' = [raised |-> TRUE, class |-> "WorkflowExecutionError",
                 node_id |-> <<>>, partial_state |-> state,
                 cause |-> [class |-> "GraphRecursionError",
                            node_id |-> <<>>, node_type |-> ""]]
    /\ status' = "Failed"
    /\ UNCHANGED <<wf, initial_state, state, channels, active, writes,
                   nextNodes, result, log, timeout, clock, step,
                   rt, hp, bd, vd, rg, bt>>

\* a run that returns without completing its execution record
RunWorkflowReturn_unrecorded ==
    /\ status = "Running"
    /\ active = {}
    /\ nextNodes = {}
    /\ channels' = ApplyAll(channels, writes)
    /\ writes' = <<>>
    /\ result' = [channels' EXCEPT !.metadata =
                    merge_dict(@, [execution_id |-> PyStr(<<"e">>),
                                   execution_time_ms |-> PyInt(clock)])]
    /\ status' = "Succeeded"
    /\ UNCHANGED <<wf, initial_state, state, active, nextNodes, error, log,
                   exec_status, timeout, clock, step, rt, hp, bd, vd, rg, bt>>

\* nothing was dispatched: graph.invoke returns and run_workflow records the
\* completion, adds the execution metadata and returns the result
RunWorkflowReturn ==
    /\ status = "Running"
    /\ active = {}
    /\ nextNodes = {}
    /\ channels' = ApplyAll(channels, writes)
    /\ writes' = <<>>
    /\ exec_status' = "completed"
    /\ result' = [channels' EXCEPT !.metadata =
                    merge_dict(@, [execution_id |-> PyStr(<<"e">>),
                                   execution_time_ms |-> PyInt(clock)])]
    /\ status' = "Succeeded"
    /\ UNCHANGED <<wf, initial_state, state, active, nextNodes, error, log,
                   timeout, clock, step, rt, hp, bd, vd, rg, bt>>

\* time passes while graph.invoke waits for a step
Tick ==
    /\ status = "Running"
    /\ active # {}
    /\ clock < MaxElapsed
    /\ clock' = clock + 1
    /\ UNCHANGED <<wf, initial_state, state, status, channels, active, writes,
                   nextNodes, result, error, exec_status, log, timeout,
                   step, rt, hp, bd, vd, rg, bt>>

Next ==
    \/ RunWorkflowStart
    \/ \E node_id \in {wf.nodes[i].id : i \in 1..Len(wf.nodes)} :
          NodeComplete(node_id)
    \/ \E node_id \in {wf.nodes[i].id : i \in 1..Len(wf.nodes)} :
          NodeFail(node_id)
    \/ SuperstepEnd
    \/ OutOfSteps
    \/ RunWorkflowReturn
    \/ Tick

Spec == Init /\ [][Next]_vars

\* graph.invoke and the steps it calls go on whenever they can: a step
\* invocation returns or raises, and the engine takes its next superstep
InitLive ==
    /\ Init
    /\ initial_state = [user_input |-> PyStr(<<"b">>)]
    /\ timeout = 0

SpecLive == InitLive /\ [][Next]_vars /\ WF_vars(Next)

\* ------------------------------------------- the dispatch function alone
Alphabet == {"a", "A", "b"}

\* strings of length lo..hi over the alphabet
Strings(lo, hi) == UNION {[1..n -> Alphabet] : n \in lo..hi}

\* target lists of an edge: distinct node ids
TargetLists ==
    {ts \in UNION {[1..n -> Strings(1, MaxIdLen)] : n \in 1..MaxTargets} :
        \A i, j \in 1..Len(ts) : i # j => ts[i] # ts[j]}

InitRoute ==
    /\ Init
    /\ wf = WorkflowRoute
    /\ initial_state = [user_input |-> PyStr(<<"b">>)]
    /\ timeout = 0

\* routing_function is called with a merged state holding some intent
Route ==
    /\ ~rt.called
    /\ \E targets \in TargetLists, intent \in Strings(0, MaxIdLen) :
         rt' = [targets |-> targets, intent |-> intent,
                choice |-> routing_function(targets,
                                            [intent |-> PyStr(intent)]),
                called |-> TRUE]
    /\ UNCHANGED <<engineVars, hp, bd, vd, rg, bt>>

NextRoute == Route

SpecRoute == InitRoute /\ [][NextRoute]_vars

\* ------------------------------------------------ merge_state on the heap
\* Python dicts are objects: the heap is the sequence of the dicts that exist,
\* a dict is known by its index, and a state holds its outputs map by
\* reference.
PyRef(id) == [k |-> "ref", s |-> <<>>, n |-> id, d |-> NoItems]

\* the outputs maps a base state may hold
HeapOutputs == {EmptyMap,
                [summary |-> PyStr(<<"o">>)],
                [summary |-> PyStr(<<"o">>), extra |-> PyNone]}

\* the base states merge_state is called with, before their outputs entry
HeapStates ==
    [user_input : {PyStr(<<>>), PyStr(<<"A">>)},
     text_result : {PyStr(<<>>), PyStr(<<"o">>)}]

\* the updates merge_state is called with: known keys, custom keys, and an
\* outputs entry that refers to a dict of the caller
HeapUpdates ==
    UNION {[keys -> {PyStr(<<"n">>), PyNone}] :
              keys \in SUBSET {"text_result", "summary", "extra"}}
    \cup {[outputs |-> PyRef(3)],
          [outputs |-> PyRef(3), summary |-> PyStr(<<"n">>)]}

\* the state a heap object stands for, its outputs map looked up
Deref(heap, id) ==
    [f \in (DOMAIN heap[id]) \cup {"outputs"} |->
        IF f = "outputs"
          THEN IF f \in DOMAIN heap[id] THEN heap[heap[id][f].n] ELSE EmptyMap
        ELSE heap[id][f]]

\* a merge_state that writes the custom keys into the outputs map of base
merge_state_heap_shared(heap, base, updates) ==
    LET new_state_id == Len(heap) + 1
        has_outputs == "outputs" \in DOMAIN heap[base]
        outputs_id == IF has_outputs THEN heap[base].outputs.n
                      ELSE Len(heap) + 2
        base_outputs == IF has_outputs THEN heap[outputs_id] ELSE EmptyMap
        known == (DOMAIN updates) \cap GraphStateKeys
        custom == (DOMAIN updates) \ GraphStateKeys
        new_outputs ==
            [key \in (DOMAIN base_outputs) \cup custom |->
                IF key \in custom THEN updates[key] ELSE base_outputs[key]]
        new_state ==
            [f \in (DOMAIN heap[base]) \cup known \cup {"outputs"} |->
                IF f = "outputs" THEN PyRef(outputs_id)
                ELSE IF f \in known THEN updates[f]
                ELSE heap[base][f]]
        written == [i \in 1..Len(heap) |->
                       IF i = outputs_id THEN new_outputs ELSE heap[i]]
    IN  [heap |-> IF has_outputs THEN Append(written, new_state)
                  ELSE written \o <<new_state, new_outputs>>,
         ret |-> new_state_id]

\* state.py merge_state, object by object: dict(base) and
\* dict(base.get("outputs", {})) are two new dicts, the loop writes into
\* them only, and the new state takes the new outputs map
merge_state_heap(heap, base, updates) ==
    LET new_state_id == Len(heap) + 1
        new_outputs_id == Len(heap) + 2
        base_outputs == IF "outputs" \in DOMAIN heap[base]
                          THEN heap[heap[base].outputs.n]
                        ELSE EmptyMap
        known == (DOMAIN updates) \cap GraphStateKeys
        custom == (DOMAIN updates) \ GraphStateKeys
        new_outputs ==
            [key \in (DOMAIN base_outputs) \cup custom |->
                IF key \in custom THEN updates[key] ELSE base_outputs[key]]
        new_state ==
            [f \in (DOMAIN heap[base]) \cup known \cup {"outputs"} |->
                IF f = "outputs" THEN PyRef(new_outputs_id)
                ELSE IF f \in known THEN updates[f]
                ELSE heap[base][f]]
    IN  [heap |-> heap \o <<new_state, new_outputs>>,
         ret |-> new_state_id]

InitHeap ==
    /\ Init
    /\ wf = WorkflowSeq
    /\ initial_state = [user_input |-> PyStr(<<"b">>)]
    /\ timeout = 0

\* merge_state is called on a base state that lives on the heap: object 1
\* is the outputs map of the base, object 2 the base, object 3 a dict of the
\* caller
MergeState ==
    /\ ~hp.called
    /\ \E base_state \in HeapStates, outputs \in HeapOutputs,
          has_outputs \in BOOLEAN, updates \in HeapUpdates :
         LET base_dict ==
                 [f \in (DOMAIN base_state)
                          \cup (IF has_outputs THEN {"outputs"} ELSE {}) |->
                     IF f = "outputs" THEN PyRef(1) ELSE base_state[f]]
             before == <<outputs, base_dict, [late |-> PyStr(<<"l">>)]>>
             r == merge_state_heap(before, 2, updates)
         IN  hp' = [called |-> TRUE, before |-> before, after |-> r.heap,
                    base |-> 2, updates |-> updates, ret |-> r.ret]
    /\ UNCHANGED <<engineVars, rt, bd, vd, rg, bt>>

NextHeap == MergeState

SpecHeap == InitHeap /\ [][NextHeap]_vars

\* workflows.py execute_workflow_endpoint, step 3: what the endpoint answers
\* for the outcome of run_workflow: an ExecuteResponse with status "success"
\* and the final state, or for any exception an HTTPException 500 whose
\* detail holds a message and str(e) and no state
execute_response(run_status, final_state, exc) ==
    IF run_status = "Succeeded"
      THEN [http |-> 200, status |-> "success", final_state |-> final_state,
            detail |-> NoItems]
    ELSE [http |-> 500, status |-> "", final_state |-> NoItems,
          detail |-> [message |-> "Workflow execution failed",
                      error |-> exc.class]]

\* ---------------------------------------------------------------- registry
\* registry.py register_source
register_source(registry, source_id, source_config) ==
    [id \in (DOMAIN registry) \cup {source_id} |->
        IF id = source_id THEN source_config ELSE registry[id]]

\* most registry calls of one behaviour
MaxOps == 3

\* source configurations handed to register_source: a dictionary without
\* "id" key, and a dictionary as model_dump() of the spec source "pg" makes it
RegistryConfigs == {[kind |-> "db"], [kind |-> "db", id |-> "pg"]}

\* the calls the callers make
RegistryCalls ==
    {[op |-> "register_source", id |-> id, config |-> config] :
        id \in {"pg", "gm"}, config \in RegistryConfigs}
    \cup {[op |-> op, id |-> "pg", config |-> NoItems] :
        op \in {"get_source", "unregister_source", "has_source"}}
    \cup {[op |-> op, id |-> "", config |-> NoItems] :
        op \in {"list_sources", "clear_sources"}}
    \cup {[op |-> op, id |-> "e1", config |-> NoItems] :
        op \in {"register_execution", "complete_execution"}}

\* registry.py: the lock each function takes
LockOf(op) ==
    IF op \in {"register_execution", "complete_execution", "clear_executions"}
      THEN "executions"
    ELSE IF op = "clear_graph_cache" THEN "graphs"
    ELSE "sources"

\* what a registry function returned or raised
Returned(value) == [raised |-> "", value |-> value]
Raised(class) == [raised |-> class, value |-> NoItems]

\* a dictionary without one key (del d[key])
Without(dict, key) == [k \in (DOMAIN dict) \ {key} |-> dict[k]]

\* registry.py list_sources: {"id": source_id, **config} for every item; a
\* key of config replaces the key "id" written before it
list_sources(sources) ==
    [source_id \in DOMAIN sources |->
        [k \in {"id"} \cup DOMAIN sources[source_id] |->
            IF k \in DOMAIN sources[source_id]
              THEN sources[source_id][k] ELSE source_id]]

\* registry.py: the statements a function executes inside its `with lock:`
\* block after the membership test whose outcome is `seen`; a dictionary
\* access with a missing key raises KeyError
lock_body(data, call, seen) ==
    CASE call.op = "register_source" ->
            [data |-> [data EXCEPT !.sources =
                          register_source(@, call.id, call.config)],
             result |-> Returned(NoItems)]
      [] call.op = "get_source" ->
            [data |-> data,
             result |-> IF ~seen THEN Raised("SourceNotFoundError")
                        ELSE IF call.id \notin DOMAIN data.sources
                          THEN Raised("KeyError")
                        ELSE Returned(data.sources[call.id])]
      [] call.op = "unregister_source" ->
            IF ~seen THEN [data |-> data, result |-> Returned(FALSE)]
            ELSE IF call.id \notin DOMAIN data.sources
              THEN [data |-> data, result |-> Raised("KeyError")]
            ELSE [data |-> [data EXCEPT !.sources = Without(@, call.id)],
                  result |-> Returned(TRUE)]
      [] call.op = "has_source" ->
            [data |-> data, result |-> Returned(seen)]
      [] call.op = "list_sources" ->
            [data |-> data, result |-> Returned(list_sources(data.sources))]
      [] call.op = "clear_sources" ->
            [data |-> [data EXCEPT !.sources = NoItems],
             result |-> Returned(NoItems)]
      [] call.op = "register_execution" ->
            [data |-> [data EXCEPT !.executions =
                          [k \in (DOMAIN @) \cup {call.id} |->
                              IF k = call.id THEN "running" ELSE @[k]]],
             result |-> Returned(NoItems)]
      [] call.op = "complete_execution" ->
            IF ~seen THEN [data |-> data, result |-> Returned(NoItems)]
            ELSE IF call.id \notin DOMAIN data.executions
              THEN [data |-> data, result |-> Raised("KeyError")]
            ELSE [data |-> [data EXCEPT !.executions[call.id] = "completed"],
                  result |-> Returned(NoItems)]
      [] call.op = "clear_executions" ->
            [data |-> [data EXCEPT !.executions = NoItems],
             result |-> Returned(NoItems)]
      [] OTHER -> [data |-> data, result |-> Returned(NoItems)]

\* registry.py: the membership test a function makes first in its block
membership_test(data, call) ==
    IF LockOf(call.op) = "executions" THEN call.id \in DOMAIN data.executions
    ELSE call.id \in DOMAIN data.sources

\* a lock that every caller may enter at any time
Free_always(name) == name \in LockNames

\* threading.Lock: the lock can be acquired
Free(name) == rg.lock[name] = 0

InitRegistry ==
    /\ Init
    /\ wf = WorkflowSeq
    /\ initial_state = [user_input |-> PyStr(<<"b">>)]
    /\ timeout = 0

\* registry.py reset_registry: clear_sources(), clear_graph_cache() and
\* clear_executions() are called one after the other
ResetRegistry(t) ==
    /\ rg.th[t].op = ""
    /\ rg.th[t].rest = <<>>
    /\ rg.started < MaxOps
    /\ rg' = [rg EXCEPT !.started = @ + 1,
                        !.th[t].within = "reset_registry",
                        !.th[t].rest =
                            <<[op |-> "clear_sources", id |-> "",
                               config |-> NoItems],
                              [op |-> "clear_graph_cache", id |-> "",
                               config |-> NoItems],
                              [op |-> "clear_executions", id |-> "",
                               config |-> NoItems]>>]
    /\ UNCHANGED <<engineVars, rt, hp, bd, vd, bt>>

\* llm_node.py _get_llm_source_config / db_node.py _get_db_source_config:
\* `if source_id and has_source(source_id): source = get_source(source_id)`,
\* two registry calls; the second is made when the first returned True
ResolveSource(t) ==
    /\ rg.th[t].op = ""
    /\ rg.th[t].rest = <<>>
    /\ rg.started < MaxOps
    /\ rg' = [rg EXCEPT !.started = @ + 1,
                        !.th[t].within = "resolve_source",
                        !.th[t].rest =
                            <<[op |-> "has_source", id |-> "pg",
                               config |-> NoItems],
                              [op |-> "get_source", id |-> "pg",
                               config |-> NoItems]>>]
    /\ UNCHANGED <<engineVars, rt, hp, bd, vd, bt>>

\* executor.py run_workflow as the registry sees it: register_execution
\* before graph.invoke and complete_execution after it, under an execution
\* id several runs can share (run_workflow_batch derives batch_0, ...)
RunWorkflow(t) ==
    /\ rg.th[t].op = ""
    /\ rg.th[t].rest = <<>>
    /\ rg.started < MaxOps
    /\ rg' = [rg EXCEPT !.started = @ + 1,
                        !.th[t].within = "run_workflow",
                        !.th[t].rest =
                            <<[op |-> "register_execution", id |-> "e1",
                               config |-> NoItems],
                              [op |-> "complete_execution", id |-> "e1",
                               config |-> NoItems]>>]
    /\ UNCHANGED <<engineVars, rt, hp, bd, vd, bt>>

\* registry.py list_active_executions: the ids of the records whose status
\* is "running"
list_active_executions(executions) ==
    {id \in DOMAIN executions : executions[id] = "running"}

\* a caller enters the `with lock:` block of a registry function and makes
\* the function's membership test
Enter(t) ==
    /\ rg.th[t].op = ""
    /\ \E call \in (IF rg.th[t].rest # <<>> THEN {Head(rg.th[t].rest)}
                    ELSE IF rg.started < MaxOps THEN RegistryCalls
                    ELSE {}) :
         /\ Free(LockOf(call.op))
         /\ rg' = [rg EXCEPT
                     !.lock[LockOf(call.op)] = t,
                     !.started = IF rg.th[t].rest = <<>> THEN @ + 1 ELSE @,
                     !.th[t] = [op |-> call.op, id |-> call.id,
                                config |-> call.config,
                                seen |-> membership_test(rg.data, call),
                                before |-> rg.data,
                                rest |-> IF rg.th[t].rest = <<>> THEN <<>>
                                         ELSE Tail(rg.th[t].rest),
                                within |-> rg.th[t].within]]
    /\ UNCHANGED <<engineVars, rt, hp, bd, vd, bt>>

\* a caller executes the rest of the block and leaves it: the lock is
\* released and the function returns or raises
Leave(t) ==
    /\ rg.th[t].op # ""
    /\ LET call == [op |-> rg.th[t].op, id |-> rg.th[t].id,
                    config |-> rg.th[t].config]
           done == lock_body(rg.data, call, rg.th[t].seen)
           rest == IF call.op = "has_source" /\ done.result = Returned(FALSE)
                     THEN <<>>
                   ELSE rg.th[t].rest
       IN  rg' = [rg EXCEPT
                    !.data = done.data,
                    !.lock[LockOf(call.op)] = 0,
                    !.th[t] = [IdleThread EXCEPT
                                 !.rest = rest,
                                 !.within = IF rest = <<>> THEN ""
                                            ELSE rg.th[t].within],
                    !.history = Append(@, [call |-> call,
                                           result |-> done.result,
                                           before |-> rg.th[t].before,
                                           after |-> done.data])]
    /\ UNCHANGED <<engineVars, rt, hp, bd, vd, bt>>

NextRegistry ==
    \E t \in Threads :
        \/ ResetRegistry(t)
        \/ ResolveSource(t)
        \/ RunWorkflow(t)
        \/ Enter(t)
        \/ Leave(t)

SpecRegistry == InitRegistry /\ [][NextRegistry]_vars

\* --------------------------------------------------------------- validator
\* validator.py ValidationError: type, message, node_id and field of one
\* issue; the message is kept as the values its f-string interpolates
Issue(type, message, node_id, field) ==
    [type |-> type, message |-> message, node_id |-> node_id, field |-> field]

Indices(n) == [i \in 1..n |-> i]

\* the lists of a loop's iterations, one after the other (errors.extend)
RECURSIVE Flatten(_)
Flatten(seqs) ==
    IF seqs = <<>> THEN <<>> ELSE Head(seqs) \o Flatten(Tail(seqs))

\* a duplicate test that reports an id at its second occurrence only
Duplicates_once(items) ==
    SelectSeq(Indices(Len(items)),
              LAMBDA i : Cardinality({j \in 1..(i - 1) :
                                         items[j].id = items[i].id}) = 1)

\* validator.py _validate_no_duplicates: the positions of a list whose id
\* was seen at an earlier position
Duplicates(items) ==
    SelectSeq(Indices(Len(items)),
              LAMBDA i : \E j \in 1..(i - 1) : items[j].id = items[i].id)

\* validator.py _validate_no_duplicates (node ids, source ids, queue ids)
validate_no_duplicates(spec) ==
    LET dup_nodes == Duplicates(spec.nodes)
        dup_sources == Duplicates(spec.sources)
        dup_queues == Duplicates(spec.queues)
    IN  [k \in 1..Len(dup_nodes) |->
            Issue("duplicate_node_id", <<spec.nodes[dup_nodes[k]].id>>,
                  spec.nodes[dup_nodes[k]].id, <<>>)]
        \o [k \in 1..Len(dup_sources) |->
            Issue("duplicate_source_id", <<spec.sources[dup_sources[k]].id>>,
                  <<>>, <<"sources">>)]
        \o [k \in 1..Len(dup_queues) |->
            Issue("duplicate_queue_id", <<spec.queues[dup_queues[k]].id>>,
                  <<>>, <<"queues">>)]

\* validator.py _validate_start_node
validate_start_node(spec, node_ids) ==
    IF spec.start_node = <<>>
      THEN <<Issue("start_node_missing", <<>>, <<>>, <<"start_node">>)>>
    ELSE IF spec.start_node \notin node_ids
      THEN <<Issue("start_node_invalid", <<spec.start_node>>,
                   spec.start_node, <<"start_node">>)>>
    ELSE <<>>

\* validator.py _validate_edges
validate_edges(spec, node_ids) ==
    Flatten([i \in 1..Len(spec.edges) |->
        LET edge == spec.edges[i]
            bad == SelectSeq(edge.to, LAMBDA target : target \notin node_ids)
        IN  (IF edge.from \notin node_ids
               THEN <<Issue("edge_source_invalid", <<edge.from>>, edge.from,
                            <<"edges", i - 1, "from">>)>>
             ELSE <<>>)
            \o [k \in 1..Len(bad) |->
                  Issue("edge_target_invalid", <<bad[k]>>, bad[k],
                        <<"edges", i - 1, "to">>)]])

\* validator.py _validate_queues
validate_queues(spec, node_ids) ==
    Flatten([i \in 1..Len(spec.queues) |->
        LET queue == spec.queues[i]
        IN  (IF queue.from \notin node_ids
               THEN <<Issue("queue_source_invalid", <<queue.from>>, queue.from,
                            <<"queues", i - 1, "from">>)>>
             ELSE <<>>)
            \o (IF queue.to \notin node_ids
                  THEN <<Issue("queue_target_invalid", <<queue.to>>, queue.to,
                               <<"queues", i - 1, "to">>)>>
                ELSE <<>>)])

\* validator.py _validate_nodes
validate_nodes(spec, source_ids) ==
    Flatten([i \in 1..Len(spec.nodes) |->
        LET node == spec.nodes[i]
            metadata == node.metadata
            missing_source ==
                IF metadata.source_id # "" /\ metadata.source_id \notin source_ids
                  THEN <<Issue("source_missing", <<metadata.source_id>>,
                               node.id, <<"metadata.source_id">>)>>
                ELSE <<>>
        IN  CASE node.type = "llm" ->
                    missing_source
                    \o (IF metadata.prompt = <<>>
                          THEN <<Issue("metadata_missing", <<>>, node.id,
                                       <<"metadata.prompt">>)>>
                        ELSE <<>>)
              [] node.type = "db" ->
                    missing_source
                    \o (IF metadata.query = <<>>
                          THEN <<Issue("metadata_missing", <<>>, node.id,
                                       <<"metadata.query">>)>>
                        ELSE <<>>)
              [] node.type = "router" ->
                    IF metadata.routes = <<>> /\ metadata.strategy = ""
                      THEN <<Issue("metadata_missing", <<>>, node.id,
                                   <<"metadata.routes">>)>>
                    ELSE <<>>
              [] OTHER -> <<>>])

\* validator.py _validate_sources
validate_sources(spec) ==
    Flatten([i \in 1..Len(spec.sources) |->
        LET source == spec.sources[i]
        IN  IF \/ source.kind = "llm" /\ source.config.model = ""
               \/ source.kind = "db" /\ source.config.connection_string_env = ""
              THEN <<Issue("metadata_missing", <<source.id>>, <<>>,
                           <<"sources", source.id, "config">>)>>
            ELSE <<>>])

\* an orphan check that reports nothing
validate_orphaned_nodes_silent(spec, node_ids) ==
    SelectSeq(<<>>, LAMBDA issue : issue.node_id \in node_ids)

\* validator.py _validate_orphaned_nodes: the node ids that are no target
\* of an edge or a queue and not the start node, each id once
validate_orphaned_nodes(spec, node_ids) ==
    LET nodes_with_incoming ==
            UNION {Range(spec.edges[i].to) : i \in 1..Len(spec.edges)}
            \cup {spec.queues[i].to : i \in 1..Len(spec.queues)}
            \cup {spec.start_node}
        first == SelectSeq(Indices(Len(spec.nodes)),
                           LAMBDA i : \A j \in 1..(i - 1) :
                                         spec.nodes[j].id # spec.nodes[i].id)
        orphans == SelectSeq(first,
                             LAMBDA i : spec.nodes[i].id \notin nodes_with_incoming)
    IN  [k \in 1..Len(orphans) |->
            Issue("orphaned_node", <<spec.nodes[orphans[k]].id>>,
                  spec.nodes[orphans[k]].id, <<>>)]

\* validator.py validate_workflow (the cycle check is commented out there)
validate_workflow(spec) ==
    LET node_ids == {spec.nodes[i].id : i \in 1..Len(spec.nodes)}
        source_ids == {spec.sources[i].id : i \in 1..Len(spec.sources)}
    IN  validate_no_duplicates(spec)
        \o validate_start_node(spec, node_ids)
        \o validate_edges(spec, node_ids)
        \o validate_queues(spec, node_ids)
        \o validate_nodes(spec, source_ids)
        \o validate_sources(spec)
        \o validate_orphaned_nodes(spec, node_ids)

\* validator.py _detect_cycles: the colours of the depth-first search
WHITE == 0
GRAY == 1
BLACK == 2

\* first position of an item in a list (list.index)
IndexOf(seq, item) ==
    CHOOSE i \in 1..Len(seq) :
        seq[i] = item /\ \A j \in 1..(i - 1) : seq[j] # item

\* validator.py _detect_cycles: adjacency[edge.from_node].extend(targets),
\* read with adjacency.get(node_id, [])
Adjacency(spec, node_id) ==
    Flatten([i \in 1..Len(spec.edges) |->
                IF spec.edges[i].from = node_id
                  THEN spec.edges[i].to ELSE <<>>])

\* validator.py _detect_cycles.dfs: the search colours the node gray, visits
\* its neighbours in list order and colours it black when none of them led
\* to a gray node; colours is the dictionary shared by all calls (an id
\* without entry reads as WHITE), the result is the dictionary as the call
\* left it and the cycle found (empty for None)
RECURSIVE dfs(_, _, _, _), dfs_neighbors(_, _, _, _, _)
dfs(spec, colors, node_id, path) ==
    dfs_neighbors(spec, [colors EXCEPT ![node_id] = GRAY], node_id,
                  Append(path, node_id), 1)

\* validator.py _detect_cycles.dfs: the loop over the neighbours, from the
\* i-th on
dfs_neighbors(spec, colors, node_id, path, i) ==
    LET neighbors == Adjacency(spec, node_id)
    IN  IF i > Len(neighbors)
          THEN [colors |-> [colors EXCEPT ![node_id] = BLACK], cycle |-> <<>>]
        ELSE IF colors[neighbors[i]] = GRAY
          THEN [colors |-> colors,
                cycle |-> SubSeq(path, IndexOf(path, neighbors[i]), Len(path))]
        ELSE IF colors[neighbors[i]] = WHITE
          THEN LET found == dfs(spec, colors, neighbors[i], path)
               IN  IF found.cycle # <<>> THEN found
                   ELSE dfs_neighbors(spec, found.colors, node_id, path, i + 1)
        ELSE dfs_neighbors(spec, colors, node_id, path, i + 1)

\* validator.py _detect_cycles: the search is started from every node that
\* is still white, in list order, and stops at the first cycle
RECURSIVE detect_from(_, _, _)
detect_from(spec, colors, i) ==
    IF i > Len(spec.nodes) THEN <<>>
    ELSE IF colors[spec.nodes[i].id] = WHITE
      THEN LET found == dfs(spec, colors, spec.nodes[i].id, <<>>)
           IN  IF found.cycle # <<>>
                 THEN <<Issue("cycle_detected", found.cycle, found.cycle[1],
                              <<>>)>>
               ELSE detect_from(spec, found.colors, i + 1)
    ELSE detect_from(spec, colors, i + 1)

\* the ids a spec document mentions as node, edge end or start node
IdsOf(spec) ==
    {spec.nodes[i].id : i \in 1..Len(spec.nodes)}
    \cup {spec.edges[i].from : i \in 1..Len(spec.edges)}
    \cup UNION {Range(spec.edges[i].to) : i \in 1..Len(spec.edges)}
    \cup {spec.start_node}

\* a cycle search that starts from the first node only
detect_cycles_first_only(spec) ==
    LET colors == [id \in IdsOf(spec) |-> WHITE]
        found == dfs(spec, colors, spec.nodes[1].id, <<>>)
    IN  IF found.cycle # <<>>
          THEN <<Issue("cycle_detected", found.cycle, found.cycle[1], <<>>)>>
        ELSE <<>>

\* validator.py _detect_cycles
detect_cycles(spec) ==
    detect_from(spec, [id \in IdsOf(spec) |-> WHITE], 1)

\* workflow_model.py WorkflowSpecModel.validate_workflow, the validator that
\* runs when a spec document becomes a WorkflowSpecModel: the references it
\* cannot resolve, in the order it tests them; it raises ValueError for the
\* first of them
unresolved_references(raw) ==
    LET node_ids == {raw.nodes[i].id : i \in 1..Len(raw.nodes)}
    IN  (IF raw.start_node \notin node_ids
           THEN <<<<"start_node", raw.start_node>>>> ELSE <<>>)
        \o Flatten([i \in 1..Len(raw.edges) |->
              (IF raw.edges[i].from \notin node_ids
                 THEN <<<<"Edge source", raw.edges[i].from>>>> ELSE <<>>)
              \o (LET bad == SelectSeq(raw.edges[i].to,
                                       LAMBDA target : target \notin node_ids)
                  IN  [k \in 1..Len(bad) |-> <<"Edge target", bad[k]>>])])
        \o Flatten([i \in 1..Len(raw.queues) |->
              (IF raw.queues[i].from \notin node_ids
                 THEN <<<<"Queue source", raw.queues[i].from>>>> ELSE <<>>)
              \o (IF raw.queues[i].to \notin node_ids
                    THEN <<<<"Queue target", raw.queues[i].to>>>> ELSE <<>>)])

\* the document becomes a WorkflowSpecModel (no ValueError is raised)
Parses(raw) == unresolved_references(raw) = <<>>

\* most nodes, edges and declared sources or queues of a generated document
MaxNodes == 3
MaxEdges == 2
MaxDecls == 2

\* the sequences over a set of items, from `least` to `most` items long
SeqsUpTo(items, least, most) ==
    UNION {[1..n -> items] : n \in least..most}

\* the node ids of the generated documents, and an id that no node has
ValIds == {id_start, id_brA}
GhostId == id_agg

\* documents that vary the graph: node lists (with repeated ids), edge
\* lists and the start node; every node is an input node or every node an
\* llm node without prompt
GraphSpecs ==
    {[nodes |-> nodes, edges |-> edges, queues |-> <<>>, sources |-> <<>>,
      start_node |-> start_node] :
        nodes \in UNION {SeqsUpTo({Node(id, type, DefaultMeta) : id \in ValIds},
                                  1, MaxNodes) : type \in {"input", "llm"}},
        edges \in SeqsUpTo({Edge(from, <<to>>) :
                               from \in ValIds \cup {GhostId},
                               to \in ValIds \cup {GhostId}}, 0, MaxEdges),
        start_node \in ValIds \cup {GhostId}}

\* documents that vary the declarations of start -> db: source lists and
\* queue lists, with repeated ids
DeclSpecs ==
    {[nodes |-> <<Node(id_start, "input", DefaultMeta),
                  Node(id_brA, "db",
                       [DefaultMeta EXCEPT !.query = <<"q">>,
                                           !.source_id = "pg"])>>,
      edges |-> <<Edge(id_start, <<id_brA>>)>>,
      queues |-> queues, sources |-> sources, start_node |-> id_start] :
        sources \in SeqsUpTo({Source("pg", "db", "", "DATABASE_URL"),
                              Source("pg", "db", "", ""),
                              Source("gm", "llm", "m", "")}, 0, MaxDecls),
        queues \in SeqsUpTo({Queue(id, from, to) :
                                id \in {"q1", "q2"},
                                from \in {id_start, GhostId},
                                to \in {id_brA, GhostId}}, 0, MaxDecls)}

\* the spec documents handed to the validator
RawSpecs == GraphSpecs \cup DeclSpecs

InitValidate ==
    /\ Init
    /\ wf = WorkflowSeq
    /\ initial_state = [user_input |-> PyStr(<<"b">>)]
    /\ timeout = 0

\* workflows.py validate_workflow_endpoint: the document is parsed into a
\* WorkflowSpecModel (the ValueError of its validator ends the request) and
\* validate_workflow returns the issues of the parsed spec
Validate ==
    /\ vd.called = ""
    /\ \E raw \in RawSpecs :
         vd' = [called |-> "validate_workflow", raw |-> raw,
                raised |-> ~Parses(raw),
                errors |-> IF Parses(raw) THEN validate_workflow(raw)
                           ELSE <<>>]
    /\ UNCHANGED <<engineVars, rt, hp, bd, rg, bt>>

\* validator.py _detect_cycles called on a WorkflowSpecModel
DetectCycles ==
    /\ vd.called = ""
    /\ \E raw \in RawSpecs :
         /\ Parses(raw)
         /\ vd' = [called |-> "_detect_cycles", raw |-> raw, raised |-> FALSE,
                   errors |-> detect_cycles(raw)]
    /\ UNCHANGED <<engineVars, rt, hp, bd, rg, bt>>

NextValidate ==
    \/ Validate
    \/ DetectCycles

SpecValidate == InitValidate /\ [][NextValidate]_vars

\* ---------------------------------------------------------------- compiler
\* a registration that drops a source id that is registered already
register_sources_from_spec_toggle(registry, sources) ==
    LET ids == {sources[i].id : i \in 1..Len(sources)}
        fresh == ids \ DOMAIN registry
        Last(id) == CHOOSE i \in 1..Len(sources) :
                        /\ sources[i].id = id
                        /\ \A j \in 1..Len(sources) :
                              sources[j].id = id => j <= i
    IN  [id \in ((DOMAIN registry) \ ids) \cup fresh |->
            IF id \in fresh THEN sources[Last(id)] ELSE registry[id]]

\* registry.py register_sources_from_spec: _sources[id] = source for every
\* source with an id, in list order (a later source of the same id wins)
register_sources_from_spec(registry, sources) ==
    LET ids == {sources[i].id : i \in 1..Len(sources)} \ {""}
        Last(id) == CHOOSE i \in 1..Len(sources) :
                        /\ sources[i].id = id
                        /\ \A j \in 1..Len(sources) :
                              sources[j].id = id => j <= i
    IN  [id \in (DOMAIN registry) \cup ids |->
            IF id \in ids THEN sources[Last(id)] ELSE registry[id]]

\* nothing was compiled
NoGraph == [nodes |-> {}, entry |-> <<>>, edges |-> {}, conditional |-> {}]

\* builder.py build_graph_from_json: the sources are registered first, then
\* the node callables (a dict keyed by node id), the entry point and the
\* edges make the graph; the spec is read only
build_graph_from_json(spec, register_sources, registry) ==
    [registry |-> IF register_sources /\ spec.sources # <<>>
                    THEN register_sources_from_spec(registry, spec.sources)
                  ELSE registry,
     graph |-> [nodes |-> {[id |-> spec.nodes[i].id,
                            type |-> spec.nodes[i].type] :
                               i \in 1..Len(spec.nodes)},
                entry |-> spec.start_node,
                edges |-> SimpleEdges(spec),
                conditional |-> ConditionalEdges(spec)],
     spec |-> spec]

\* start -> llmU -> sel and an llm node that no edge leads to
WorkflowOrphan ==
    [WorkflowSeq EXCEPT !.nodes =
        Append(@, Node(id_brA, "llm", [DefaultMeta EXCEPT !.prompt = <<"p">>]))]

\* WorkflowDb with another configuration under the same source id
WorkflowDbOther ==
    [WorkflowDb EXCEPT !.sources = <<Source("pg", "db", "", "OTHER_URL")>>]

\* WorkflowSeq whose llm node names a source the spec does not declare
WorkflowExternal ==
    [WorkflowSeq EXCEPT !.nodes[2].metadata.source_id = "gm"]

\* the specs handed to the operations that compile
BuildSpecs == Workflows \cup {WorkflowOrphan, WorkflowDbOther, WorkflowExternal}

\* the sources a caller registers on its own, as register_sources_from_spec
\* would store them
ExternalSources == {Source("gm", "llm", "m", ""),
                    Source("pg", "db", "", "OTHER_URL")}

\* the configuration an llm node falls back to without registered source
DefaultLlmConfig == [model |-> "gemini-2.5-flash", connection_string_env |-> ""]

\* llm_node.py _get_llm_source_config: the registered source's config if
\* the node names a registered source (the nodes modelled carry no inline
\* model configuration)
get_llm_source_config(registry, source_id) ==
    IF source_id # "" /\ source_id \in DOMAIN registry
      THEN registry[source_id].config
    ELSE DefaultLlmConfig

\* the configuration a db node falls back to without registered source
DefaultDbConfig == [model |-> "", connection_string_env |-> "DATABASE_URL"]

\* db_node.py _get_db_source_config: the registered source's config if the
\* node names a registered source (the nodes modelled carry no inline
\* connection configuration)
get_db_source_config(registry, source_id) ==
    IF source_id # "" /\ source_id \in DOMAIN registry
      THEN registry[source_id].config
    ELSE DefaultDbConfig

\* most calls of one behaviour
MaxCalls == 2

\* one call of an operation that compiles: what it was given, whether it
\* validated, compiled and ran the spec, and the registry and the number of
\* execution records before and after
Call(path, spec, validated, built, compiled, ran, registry) ==
    [path |-> path, spec |-> spec, validated |-> validated,
     compiled |-> compiled,
     graph |-> IF compiled THEN built.graph ELSE NoGraph,
     spec_after |-> IF compiled THEN built.spec ELSE spec,
     ran |-> ran,
     executions_before |-> bd.executions,
     executions_after |-> bd.executions + (IF ran THEN 1 ELSE 0),
     registry_before |-> registry,
     registry_after |-> IF compiled THEN built.registry ELSE registry]

InitBuild ==
    /\ Init
    /\ wf = WorkflowSeq
    /\ initial_state = [user_input |-> PyStr(<<"b">>)]
    /\ timeout = 0

\* a call is made and leaves the registry as the call record says
Record(call) ==
    /\ bd' = [registry |-> call.registry_after,
              calls |-> Append(bd.calls, call),
              executions |-> call.executions_after]
    /\ UNCHANGED <<engineVars, rt, hp, vd, rg, bt>>

\* registry.py register_source called by the application before any spec
\* is compiled
RegisterSource ==
    /\ bd.calls = <<>>
    /\ \E source \in ExternalSources :
         /\ source.id \notin DOMAIN bd.registry
         /\ bd' = [bd EXCEPT !.registry =
                                register_source(@, source.id, source)]
    /\ UNCHANGED <<engineVars, rt, hp, vd, rg, bt>>

\* workflows.py execute_workflow_endpoint: validate, then build and run
ExecuteEndpoint ==
    /\ Len(bd.calls) < MaxCalls
    /\ \E spec \in BuildSpecs :
         LET clean == validate_workflow(spec) = <<>>
             built == build_graph_from_json(spec, TRUE, bd.registry)
         IN  Record(Call("execute_endpoint", spec, TRUE, built, clean, clean,
                         bd.registry))

\* a build operation that compiles with the default register_sources
BuildEndpoint_registering ==
    /\ Len(bd.calls) < MaxCalls
    /\ \E spec \in BuildSpecs :
         LET clean == validate_workflow(spec) = <<>>
             built == build_graph_from_json(spec, TRUE, bd.registry)
         IN  Record(Call("build_endpoint", spec, TRUE, built, clean, FALSE,
                         bd.registry))

\* workflows.py build_workflow_endpoint: validate, then build without
\* registering the sources
BuildEndpoint ==
    /\ Len(bd.calls) < MaxCalls
    /\ \E spec \in BuildSpecs :
         LET clean == validate_workflow(spec) = <<>>
             built == build_graph_from_json(spec, FALSE, bd.registry)
         IN  Record(Call("build_endpoint", spec, TRUE, built, clean, FALSE,
                         bd.registry))

\* builder.py validate_and_build
ValidateAndBuild ==
    /\ Len(bd.calls) < MaxCalls
    /\ \E spec \in BuildSpecs :
         LET clean == validate_workflow(spec) = <<>>
             built == build_graph_from_json(spec, TRUE, bd.registry)
         IN  Record(Call("validate_and_build", spec, TRUE, built, clean, FALSE,
                         bd.registry))

\* executor.py execute_workflow: build_graph_from_json, then run_workflow
ExecuteWorkflow ==
    /\ Len(bd.calls) < MaxCalls
    /\ \E spec \in BuildSpecs :
         LET built == build_graph_from_json(spec, TRUE, bd.registry)
         IN  Record(Call("execute_workflow", spec, FALSE, built, TRUE, TRUE,
                         bd.registry))

NextBuild ==
    \/ RegisterSource
    \/ ExecuteEndpoint
    \/ BuildEndpoint
    \/ ValidateAndBuild
    \/ ExecuteWorkflow

SpecBuild == InitBuild /\ [][NextBuild]_vars

\* ------------------------------------------------------------------- batch
\* most initial states of one batch
MaxBatch == 2

\* the initial states a caller puts in a batch
BatchItems ==
    {[user_input |-> PyStr(<<"A">>)], [user_input |-> PyStr(<<"b">>)],
     [intent |-> PyStr(id_routeA)]}

\* the keyword arguments a caller passes on to run_workflow
BatchKwargs ==
    {NoItems, [workflow_id |-> <<"w">>], [execution_id |-> <<"x">>]}

\* str(i) for the indices of a batch
Str(i) == <<<<"0">>, <<"1">>, <<"2">>, <<"3">>>>[i + 1]

\* executor.py run_workflow_batch: f"{kwargs.get('execution_id', 'batch')}_{i}"
batch_execution_id(kwargs, i) ==
    Get(kwargs, "execution_id", <<"b", "a", "t", "c", "h">>)
        \o <<"_">> \o Str(i)

\* executor.py run_workflow on a graph whose steps leave the state as it
\* is: the prepared state with the execution id in its metadata
run_workflow_result(initial, execution_id) ==
    [prepare_initial_state(initial) EXCEPT !.metadata =
        merge_dict(@, [execution_id |-> PyStr(execution_id)])]

\* executor.py run_workflow_batch, except clause: the error state of an item
error_state(initial, message) ==
    [create_initial_state(Get(initial, "user_input", PyStr(<<>>)))
        EXCEPT !.errors = <<message>>]

\* executor.py run_workflow_batch, the call
\* run_workflow(graph=..., initial_state=..., execution_id=..., **kwargs):
\* a keyword given twice raises TypeError before run_workflow is entered;
\* otherwise the run completes or raises WorkflowExecutionError
run_workflow_call(kwargs, execution_id, initial) ==
    IF "execution_id" \in DOMAIN kwargs
      THEN {[run |-> "not_called",
             result |-> error_state(initial, "TypeError")]}
    ELSE {[run |-> "completed",
           result |-> run_workflow_result(initial, execution_id)],
          [run |-> "failed",
           result |-> error_state(initial, "WorkflowExecutionError")]}

InitBatch ==
    /\ Init
    /\ wf = WorkflowSeq
    /\ initial_state = [user_input |-> PyStr(<<"b">>)]
    /\ timeout = 0

\* run_workflow_batch is called
BatchCall ==
    /\ ~bt.called
    /\ \E n \in 0..MaxBatch :
         \E initial_states \in [1..n -> BatchItems], kwargs \in BatchKwargs :
            bt' = [BatchIdle EXCEPT !.called = TRUE,
                                    !.initial_states = initial_states,
                                    !.kwargs = kwargs]
    /\ UNCHANGED <<engineVars, rt, hp, bd, vd, rg>>

\* one turn of the loop: the item is run and its result or its error state
\* is appended
BatchItem ==
    /\ bt.called /\ ~bt.returned
    /\ Len(bt.results) < Len(bt.initial_states)
    /\ LET i == Len(bt.results)
           initial == bt.initial_states[i + 1]
       IN  \E out \in run_workflow_call(bt.kwargs,
                           batch_execution_id(bt.kwargs, i), initial) :
              bt' = [bt EXCEPT !.runs = Append(@, out.run),
                               !.results = Append(@, out.result)]
    /\ UNCHANGED <<engineVars, rt, hp, bd, vd, rg>>

\* the loop is over and the results are returned
BatchReturn ==
    /\ bt.called /\ ~bt.returned
    /\ Len(bt.results) = Len(bt.initial_states)
    /\ bt' = [bt EXCEPT !.returned = TRUE]
    /\ UNCHANGED <<engineVars, rt, hp, bd, vd, rg>>

NextBatch ==
    \/ BatchCall
    \/ BatchItem
    \/ BatchReturn

SpecBatch == InitBatch /\ [][NextBatch]_vars

\* ------------------------------------------------------------------ claims
Reverse(seq) == [i \in 1..Len(seq) |-> seq[Len(seq) + 1 - i]]

RemoveAt(seq, i) == SubSeq(seq, 1, i - 1) \o SubSeq(seq, i + 1, Len(seq))

Min(set) == CHOOSE i \in set : \A j \in set : i <= j

\* the ids of the node_completed events, in order
Completed(events) ==
    LET done == SelectSeq(events, LAMBDA e : e.event = "node_completed")
    IN  [i \in 1..Len(done) |-> done[i].node]

\* the token counts the logged node calls reported, summed
RECURSIVE SumTokens(_)
SumTokens(events) ==
    IF events = <<>> THEN 0
    ELSE Head(events).tokens + SumTokens(Tail(events))

\* every node of the superstep has returned and the deltas await the merge
AtMerge == status = "Running" /\ active = {}

\* C1: when a step raises, the WorkflowExecutionError's partial_state is the
\* accumulated state as of the last successful merge: every field, the
\* execution_path included, equals what the engine had merged so far.
C1_PartialStateIsLastMerge ==
    status = "Failed" =>
        \A f \in DOMAIN channels : error.partial_state[f] = channels[f]

\* C2: whenever the router's delta sets intent to the id of one of the
\* targets of its conditional edge, the node dispatched after the router is
\* that target.
C2_RouterIntentSelectsTarget ==
    \A i \in 1..Len(writes) :
        \A c \in ConditionalEdges(wf) :
            ( /\ c.from = writes[i].node
              /\ "intent" \in DOMAIN writes[i].delta
              /\ writes[i].delta.intent.s \in Range(c.to_nodes) )
            => Successors(wf, writes[i].node,
                          ApplyDelta(channels, writes[i].delta))
                 = {writes[i].delta.intent.s}

\* the targets whose id equals the intent, case-insensitively
ExactHits(targets, intent) ==
    {i \in 1..Len(targets) : Lower(targets[i]) = Lower(intent)}

\* the targets whose id is a substring of the intent
TargetInIntent(targets, intent) ==
    {i \in 1..Len(targets) : Contains(Lower(targets[i]), Lower(intent))}

\* the targets whose id contains the intent
IntentInTarget(targets, intent) ==
    {i \in 1..Len(targets) : Contains(Lower(intent), Lower(targets[i]))}

\* C3: the dispatch function returns a target whose id equals the intent
\* case-insensitively whenever one is listed, wherever it stands in the list
\* and whatever partially matching targets are listed with it.
C3_ExactMatchWins ==
    (rt.called /\ ExactHits(rt.targets, rt.intent) # {}) =>
        Lower(rt.choice) = Lower(rt.intent)

\* C4 as stated: with no target equal to the intent, the dispatch function
\* returns the first listed target whose id is a substring of the intent.
C4_FirstTargetInsideIntent ==
    ( /\ rt.called
      /\ ExactHits(rt.targets, rt.intent) = {}
      /\ TargetInIntent(rt.targets, rt.intent) # {} )
    => rt.choice = rt.targets[Min(TargetInIntent(rt.targets, rt.intent))]

\* C4 amended: with no target equal to the intent, the dispatch function
\* returns the first listed target whose id contains the intent as a
\* case-insensitive substring; a target id contained in the intent is no match.
C4_FirstTargetContainingIntent ==
    ( /\ rt.called
      /\ ExactHits(rt.targets, rt.intent) = {}
      /\ IntentInTarget(rt.targets, rt.intent) # {} )
    => rt.choice = rt.targets[Min(IntentInTarget(rt.targets, rt.intent))]

C4_Witness ==
    /\ rt.called
    /\ rt.intent # <<>>
    /\ ExactHits(rt.targets, rt.intent) = {}
    /\ IntentInTarget(rt.targets, rt.intent) # {}
    /\ Min(IntentInTarget(rt.targets, rt.intent)) > 1
    /\ rt.choice = rt.targets[Min(IntentInTarget(rt.targets, rt.intent))]

\* the two deltas merged into the snapshot, first a then b
MergedPair(a, b) == ApplyAll(channels, <<a, b>>)

\* the same items with the same multiplicities
SameItems(s, t) ==
    /\ Len(s) = Len(t)
    /\ \A x \in Range(s) \cup Range(t) :
          Cardinality({i \in 1..Len(s) : s[i] = x})
            = Cardinality({i \in 1..Len(t) : t[i] = x})

\* C5 as stated: for two branches of one superstep, every append, sum and
\* merge_map field has the same merged value in either arrival order.
C5_MergeOrderIndependent ==
    AtMerge =>
        \A i, j \in 1..Len(writes) :
            i # j =>
                \A f \in AppendFields \cup SumFields \cup MergeMapFields :
                    MergedPair(writes[i], writes[j])[f]
                      = MergedPair(writes[j], writes[i])[f]

\* C5 amended: in either arrival order a sum field has the same value, an
\* append field holds the same items (listed in arrival order), and a
\* merge_map field has the same keys and the same value for every key that
\* at most one of the two deltas writes.
C5_MergeOrderUpToArrival ==
    AtMerge =>
        \A i, j \in 1..Len(writes) :
            i # j =>
                LET ab == MergedPair(writes[i], writes[j])
                    ba == MergedPair(writes[j], writes[i])
                    Writes(w, f) ==
                        IF f \in DOMAIN w.delta THEN DOMAIN w.delta[f] ELSE {}
                IN  /\ \A f \in SumFields : ab[f] = ba[f]
                    /\ \A f \in AppendFields : SameItems(ab[f], ba[f])
                    /\ \A f \in MergeMapFields :
                          /\ DOMAIN ab[f] = DOMAIN ba[f]
                          /\ \A key \in DOMAIN ab[f] :
                                key \notin Writes(writes[i], f)
                                             \cap Writes(writes[j], f)
                                => ab[f][key] = ba[f][key]

C5_Witness ==
    /\ AtMerge
    /\ Len(writes) = 2
    /\ writes[1].tokens > 0
    /\ writes[2].tokens > 0
    /\ writes[1].tokens # writes[2].tokens
    /\ MergedPair(writes[1], writes[2]).execution_path
         # MergedPair(writes[2], writes[1]).execution_path

\* C6: when the branches of a superstep return their deltas, a field that a
\* branch did not change holds in the merged state what the other branches
\* made of it: that branch's delta neither overwrites nor removes it.
C6_UnchangedFieldsNotClobbered ==
    AtMerge =>
        \A i \in 1..Len(writes) :
            \A f \in (DOMAIN channels) \ {"execution_path"} :
                writes[i].result[f] = channels[f] =>
                    ApplyAll(channels, writes)[f]
                      = ApplyAll(channels, RemoveAt(writes, i))[f]

C6_Witness ==
    /\ wf = WorkflowFan
    /\ status = "Running"
    /\ active = {id_agg}
    /\ state.tokens_used > 0
    /\ channels.tokens_used = state.tokens_used + MaxTokens
    /\ "summary" \in DOMAIN channels.outputs
    /\ Truthy(channels.outputs["summary"])
    /\ Truthy(channels.text_result)

\* C7: tokens_used ends at its initial value plus the token counts reported
\* by the executed steps, and every delta carries the step's own increment,
\* never a running total.
C7_TokensAreSummedIncrements ==
    /\ status = "Succeeded" =>
          result.tokens_used = state.tokens_used + SumTokens(log)
    /\ \A i \in 1..Len(writes) :
          IF writes[i].tokens > 0
            THEN /\ "tokens_used" \in DOMAIN writes[i].delta
                 /\ writes[i].delta.tokens_used = writes[i].tokens
          ELSE "tokens_used" \notin DOMAIN writes[i].delta

C7_Witness ==
    /\ status = "Succeeded"
    /\ state.tokens_used > 0
    /\ \E i, j \in 1..Len(log) :
          /\ i # j
          /\ log[i].tokens = MaxTokens - 1
          /\ log[j].tokens = MaxTokens
    /\ result.tokens_used = state.tokens_used + (MaxTokens - 1) + MaxTokens

\* C8: a keep_first field that holds a non-empty value is never changed by a
\* later merge; in particular user_input, non-empty at the start of the
\* execution, has its initial value in every later state and in the result.
C8_KeepFirstFieldsAreStable ==
    /\ [](status \in {"Running", "Succeeded"} /\ Truthy(state.user_input)
            => /\ channels.user_input = state.user_input
               /\ status = "Succeeded" => result.user_input = state.user_input)
    /\ [][status = "Running" /\ status' # "Failed" =>
            \A f \in KeepFirstFields :
                Truthy(channels[f]) =>
                    /\ channels'[f] = channels[f]
                    /\ status' = "Succeeded" => result'[f] = channels[f]]_vars

C8_Witness ==
    /\ status = "Succeeded"
    /\ Truthy(state.user_input)
    /\ \E i \in 1..Len(log) :
          /\ "user_input" \in DOMAIN log[i].delta
          /\ Truthy(log[i].delta.user_input)
          /\ log[i].delta.user_input # state.user_input
    /\ result.user_input = state.user_input

\* C9: merging an empty delta value into a keep_first field leaves the field
\* as it was, whatever the current value, empty and falsy ones included.
C9_EmptyDeltaKeepsField ==
    AtMerge =>
        \A i \in 1..Len(writes) :
            \A f \in KeepFirstFields \cap DOMAIN writes[i].delta :
                ~Truthy(writes[i].delta[f]) =>
                    keep_first(channels[f], writes[i].delta[f]) = channels[f]


C11_DeltaHoldsOnlyChanges ==
    \A i \in 1..Len(writes) :
        LET w == writes[i]
        IN  /\ \A key \in (DOMAIN w.delta) \ {"execution_path"} :
                  w.result[key] # channels[key]
            /\ \A f \in SumFields \cap DOMAIN w.delta :
                  w.delta[f] = w.result[f] - channels[f]
            /\ \A f \in (AppendFields \cap DOMAIN w.delta) \ {"execution_path"} :
                  \A k \in 1..Len(w.delta[f]) :
                      w.delta[f][k] \notin Range(channels[f])

\* C12: merge_state never mutates what it is given: every dict that existed
\* before the call, the base state and the outputs map it holds included, has
\* the same content after it; the state returned and its outputs map are new
\* dicts, and the state returned is base with the updates applied.
C12_MergeStateLeavesBaseUnchanged ==
    hp.called =>
        /\ \A id \in 1..Len(hp.before) : hp.after[id] = hp.before[id]
        /\ hp.ret \notin 1..Len(hp.before)
        /\ hp.after[hp.ret].outputs.n \notin 1..Len(hp.before)
        /\ Deref(hp.after, hp.ret)
             = merge_state(Deref(hp.before, hp.base), hp.updates)

C12_Witness ==
    /\ hp.called
    /\ "outputs" \in DOMAIN hp.before[hp.base]
    /\ "summary" \in DOMAIN hp.updates
    /\ "summary" \in DOMAIN Deref(hp.before, hp.base).outputs
    /\ Deref(hp.after, hp.ret).outputs["summary"] = PyStr(<<"n">>)
    /\ Deref(hp.after, hp.base).outputs["summary"] = PyStr(<<"o">>)

\* C13: a run that was given a timeout and has used more than that budget
\* does not end as Succeeded or Failed: it ends as TimedOut, with a timeout
\* error that carries the partial state.
C13_TimedOutWhenBudgetExceeded ==
    (timeout # 0 /\ clock > timeout /\ status \notin {"Pending", "Running"})
        => /\ status = "TimedOut"
           /\ error.raised
           /\ error.class = "TimeoutError"

\* C14: the execution record follows the run: there is none before
\* register_execution, it is running while run_workflow is in progress, it is
\* completed or failed once run_workflow has returned or raised, it changes
\* only from none to running and from running to a terminal status, and a
\* terminal status is never left.
C14_ExecutionRecordFollowsRun ==
    /\ [](/\ status = "Pending" => exec_status = "none"
          /\ status = "Running" => exec_status = "running"
          /\ status = "Succeeded" => exec_status = "completed"
          /\ status = "Failed" => exec_status = "failed")
    /\ [][exec_status' # exec_status =>
            \/ exec_status = "none" /\ exec_status' = "running"
            \/ exec_status = "running"
                 /\ exec_status' \in {"completed", "failed"}]_vars

C14_Witness ==
    /\ status = "Succeeded"
    /\ exec_status = "completed"
    /\ wf = WorkflowDb
    /\ Completed(log) = <<id_start, id_db1, id_db2>>

\* C15: a failed step ends the run: its node_failed event is the last event
\* of the run, the run is Failed from then on, no step completes or fails
\* after it and no further step is scheduled.
C15_FailureAbortsRun ==
    /\ [](\A i \in 1..Len(log) :
             log[i].event = "node_failed" =>
                 i = Len(log) /\ status = "Failed")
    /\ [][status = "Failed" =>
            /\ status' = "Failed"
            /\ log' = log
            /\ active' = active
            /\ channels' = channels
            /\ exec_status' = "failed"]_vars

C15_Witness ==
    /\ status = "Failed"
    /\ wf = WorkflowFan
    /\ active = {id_brA, id_brB}
    /\ Len(log) = 2
    /\ log[2] = [event |-> "node_failed", node |-> id_brA, tokens |-> 0,
                 delta |-> NoItems]

\* C16: whatever step fails and for whatever cause, the exception that
\* leaves the step is a NodeExecutionError carrying the id and the type of
\* that step, and the error run_workflow raises names the failing node.
C16_FailureNamesTheStep ==
    status = "Failed" =>
        LET failed == log[Len(log)].node
        IN  /\ error.cause.class = "NodeExecutionError"
            /\ error.cause.node_id = failed
            /\ error.cause.node_type = NodeOf(wf, failed).type
            /\ error.node_id = failed

\* C17: on every path into the compiler (execute endpoint, build endpoint,
\* validate_and_build, execute_workflow) a spec with at least one validation
\* issue is never compiled, registers no source and runs no step.
C17_OnlyCleanSpecsAreCompiled ==
    \A i \in 1..Len(bd.calls) :
        LET call == bd.calls[i]
        IN  validate_workflow(call.spec) # <<>> =>
                /\ ~call.compiled
                /\ ~call.ran
                /\ call.registry_after = call.registry_before

\* C18: an edge with several targets is a conditional dispatch whatever the
\* type of its source node: of the targets of one such edge at most one runs
\* in a superstep, and once the source step has completed exactly one of them
\* is scheduled next.
C18_SeveralTargetsRunOne ==
    \A i \in 1..Len(wf.edges) :
        LET edge == wf.edges[i]
        IN  Len(edge.to) > 1 =>
                /\ Cardinality(active \cap Range(edge.to)) <= 1
                /\ (/\ status = "Running"
                    /\ \E k \in 1..Len(writes) : writes[k].node = edge.from)
                   => Cardinality(nextNodes \cap Range(edge.to)) = 1

\* the nodes of a spec that are the source of no edge
DeadEnds(spec) ==
    {n \in Range(spec.nodes) :
        \A i \in 1..Len(spec.edges) : spec.edges[i].from # n.id}

\* C19: in a compiled graph a node without outgoing edge has the edge to END
\* if and only if it is an aggregator; a node of another type without
\* outgoing edge has no plain edge and no conditional dispatch at all.
C19_OnlyAggregatorDeadEndsReachEnd ==
    \A i \in 1..Len(bd.calls) :
        LET call == bd.calls[i]
        IN  call.compiled =>
              \A n \in DeadEnds(call.spec) :
                /\ <<n.id, END>> \in call.graph.edges <=> n.type = "aggregator"
                /\ n.type # "aggregator" =>
                     /\ \A e \in call.graph.edges : e[1] # n.id
                     /\ \A c \in call.graph.conditional : c.from # n.id

C19_Witness ==
    \E i \in 1..Len(bd.calls) :
        /\ bd.calls[i].compiled
        /\ bd.calls[i].spec = WorkflowSeq
        /\ <<id_sel, END>> \in bd.calls[i].graph.edges
        /\ \E j \in 1..Len(bd.calls) :
             /\ bd.calls[j].compiled
             /\ bd.calls[j].spec = WorkflowDb
             /\ \E n \in DeadEnds(WorkflowDb) : n.id = id_db2 /\ n.type = "db"

Count(seq, Test(_)) == Len(SelectSeq(seq, Test))

\* how many items of a list carry an id
Occurrences(items, id) == Count(items, LAMBDA item : item.id = id)

\* C21: an id that occurs k >= 2 times among the nodes is reported by
\* exactly k-1 duplicate_node_id issues, and likewise an id among the sources
\* by k-1 duplicate_source_id issues and an id among the queues by k-1
\* duplicate_queue_id issues.
C21_OneIssuePerDuplicateOccurrence ==
    (vd.called = "validate_workflow" /\ ~vd.raised) =>
        /\ \A id \in {vd.raw.nodes[i].id : i \in 1..Len(vd.raw.nodes)} :
              Occurrences(vd.raw.nodes, id) >= 2 =>
                Count(vd.errors,
                      LAMBDA e : e.type = "duplicate_node_id" /\ e.node_id = id)
                    = Occurrences(vd.raw.nodes, id) - 1
        /\ \A id \in {vd.raw.sources[i].id : i \in 1..Len(vd.raw.sources)} :
              Occurrences(vd.raw.sources, id) >= 2 =>
                Count(vd.errors,
                      LAMBDA e : e.type = "duplicate_source_id"
                                 /\ e.message = <<id>>)
                    = Occurrences(vd.raw.sources, id) - 1
        /\ \A id \in {vd.raw.queues[i].id : i \in 1..Len(vd.raw.queues)} :
              Occurrences(vd.raw.queues, id) >= 2 =>
                Count(vd.errors,
                      LAMBDA e : e.type = "duplicate_queue_id"
                                 /\ e.message = <<id>>)
                    = Occurrences(vd.raw.queues, id) - 1

C21_Witness ==
    /\ vd.called = "validate_workflow"
    /\ ~vd.raised
    /\ Occurrences(vd.raw.nodes, id_brA) = 3
    /\ Count(vd.errors, LAMBDA e : e.type = "duplicate_node_id") = 2

NoDuplicateIds(spec) ==
    \A items \in {spec.nodes, spec.sources, spec.queues} :
        \A i \in 1..Len(items) : \A j \in 1..Len(items) :
            items[i].id = items[j].id => i = j

\* every node and source has the configuration its kind requires, and every
\* source a node names is declared in the spec
ConfigComplete(spec) ==
    /\ \A n \in Range(spec.nodes) :
          /\ n.type = "llm" => n.metadata.prompt # <<>>
          /\ n.type = "db" => n.metadata.query # <<>>
          /\ n.type = "router" =>
                n.metadata.routes # <<>> \/ n.metadata.strategy # ""
          /\ (n.type \in {"llm", "db"} /\ n.metadata.source_id # "") =>
                \E src \in Range(spec.sources) : src.id = n.metadata.source_id
    /\ \A src \in Range(spec.sources) :
          /\ src.kind = "llm" => src.config.model # ""
          /\ src.kind = "db" => src.config.connection_string_env # ""

\* every node but the start node is the target of an edge or of a queue
AllHaveIncoming(spec) ==
    \A n \in Range(spec.nodes) :
        \/ n.id = spec.start_node
        \/ \E e \in Range(spec.edges) : n.id \in Range(e.to)
        \/ \E q \in Range(spec.queues) : q.to = n.id

RECURSIVE ReachableFrom(_, _)
ReachableFrom(spec, ids) ==
    LET more == UNION {Range(e.to) : e \in {x \in Range(spec.edges) :
                                                x.from \in ids}}
                \cup {q.to : q \in {x \in Range(spec.queues) : x.from \in ids}}
    IN  IF more \subseteq ids THEN ids ELSE ReachableFrom(spec, ids \cup more)

\* C23: every node that cannot be reached from start_node by following
\* edges and queues is reported by an orphaned_node issue.
C23_UnreachableNodesAreReported ==
    (vd.called = "validate_workflow" /\ ~vd.raised) =>
        \A n \in Range(vd.raw.nodes) :
            n.id \notin ReachableFrom(vd.raw, {vd.raw.start_node}) =>
                \E i \in 1..Len(vd.errors) :
                    /\ vd.errors[i].type = "orphaned_node"
                    /\ vd.errors[i].node_id = n.id

\* C24: validating a spec document never raises and never stops at the
\* first problem: the returned list is the issues of the duplicate check,
\* the start node check, the edge check, the queue check, the node check,
\* the source check and the orphan check, in that order.
C24_ValidationNeverRaises ==
    vd.called = "validate_workflow" =>
        LET node_ids == {vd.raw.nodes[i].id : i \in 1..Len(vd.raw.nodes)}
            source_ids == {vd.raw.sources[i].id : i \in 1..Len(vd.raw.sources)}
        IN  /\ ~vd.raised
            /\ vd.errors = validate_no_duplicates(vd.raw)
                           \o validate_start_node(vd.raw, node_ids)
                           \o validate_edges(vd.raw, node_ids)
                           \o validate_queues(vd.raw, node_ids)
                           \o validate_nodes(vd.raw, source_ids)
                           \o validate_sources(vd.raw)
                           \o validate_orphaned_nodes(vd.raw, node_ids)

\* a node id lies on a directed cycle of the edges
OnCycle(spec, id) ==
    \E e \in Range(spec.edges) :
        /\ e.from = id
        /\ id \in ReachableFrom([spec EXCEPT !.queues = <<>>], Range(e.to))

C26_RegisteredSourceIsAccepted ==
    \A i \in 1..Len(bd.calls) :
        LET call == bd.calls[i]
            errors == validate_workflow(call.spec)
        IN  \A n \in Range(call.spec.nodes) :
                (/\ call.validated
                 /\ n.metadata.source_id \in DOMAIN call.registry_before
                 /\ \A src \in Range(call.spec.sources) :
                       src.id # n.metadata.source_id)
                => /\ \A k \in 1..Len(errors) :
                         ~(/\ errors[k].type = "source_missing"
                           /\ errors[k].node_id = n.id)
                   /\ get_llm_source_config(call.registry_after,
                                            n.metadata.source_id)
                        = call.registry_before[n.metadata.source_id].config

\* C30: the build operation invokes no step, creates no execution record
\* and leaves the source registry as it was before the call.
C30_BuildHasNoEffect ==
    \A i \in 1..Len(bd.calls) :
        LET call == bd.calls[i]
        IN  call.path = "build_endpoint" =>
                /\ call.validated
                /\ call.compiled <=> validate_workflow(call.spec) = <<>>
                /\ ~call.ran
                /\ call.executions_after = call.executions_before
                /\ call.registry_after = call.registry_before

C30_Witness ==
    \E i \in 1..Len(bd.calls) :
        /\ bd.calls[i].path = "build_endpoint"
        /\ bd.calls[i].compiled
        /\ bd.calls[i].spec = WorkflowDb
        /\ bd.calls[i].registry_before = NoItems
        /\ bd.registry = NoItems

\* C29: when the execution fails, the response of the execute operation has
\* status "error" and its final_state holds the state merged before the
\* failure.
C29_FailureResponseKeepsProgress ==
    status = "Failed" =>
        LET response == execute_response(status, result, error)
        IN  /\ response.status = "error"
            /\ response.final_state = channels

\* the source id is registered before the i-th call of the history: a
\* register_source of it is followed by no unregister_source of it and no
\* clear_sources
RegisteredAt(history, i, id) ==
    {j \in 1..(i - 1) :
        /\ history[j].call.op = "register_source"
        /\ history[j].call.id = id
        /\ \A k \in (j + 1)..(i - 1) :
              /\ ~(history[k].call.op = "unregister_source"
                   /\ history[k].call.id = id)
              /\ history[k].call.op # "clear_sources"}

\* C27: the source registry behaves as a map: get(id) returns the
\* configuration of the most recent register(id, config) not followed by an
\* unregister or clear and otherwise raises SourceNotFoundError, leaving the
\* registry unchanged; unregister(id) returns true exactly when id was
\* registered and removes only that id; list() returns exactly the
\* registered ids.
C27_RegistryIsAMap ==
    \A i \in 1..Len(rg.history) :
        LET e == rg.history[i]
            live == RegisteredAt(rg.history, i, e.call.id)
            latest == CHOOSE j \in live : \A k \in live : k <= j
        IN  /\ e.call.op = "get_source" =>
                /\ e.after.sources = e.before.sources
                /\ e.result = IF live # {}
                                THEN Returned(rg.history[latest].call.config)
                              ELSE Raised("SourceNotFoundError")
            /\ e.call.op = "unregister_source" =>
                /\ e.result = Returned(live # {})
                /\ DOMAIN e.after.sources = (DOMAIN e.before.sources) \ {e.call.id}
                /\ \A id \in DOMAIN e.after.sources :
                      e.after.sources[id] = e.before.sources[id]
            /\ e.call.op = "list_sources" =>
                /\ e.after.sources = e.before.sources
                /\ e.result.raised = ""
                /\ {e.result.value[k].id : k \in DOMAIN e.result.value}
                     = {id \in {"pg", "gm"} :
                           RegisteredAt(rg.history, i, id) # {}}

\* registry.py: a function run on its own, nothing between its membership
\* test and the rest of its block
registry_call(data, call) ==
    lock_body(data, call, membership_test(data, call))

\* the calls of the history from the i-th on, run one at a time from `data`,
\* return what the history says and end with the data of the registry
RECURSIVE ReplaysFrom(_, _)
ReplaysFrom(data, i) ==
    IF i > Len(rg.history) THEN data = rg.data
    ELSE /\ registry_call(data, rg.history[i].call).result
              = rg.history[i].result
         /\ ReplaysFrom(registry_call(data, rg.history[i].call).data, i + 1)

\* C28: every registry function runs under the one lock of its table: a
\* caller inside a function holds exactly that lock and no other, no two
\* callers are inside functions of the same table, and what the calls
\* returned and left behind is what they return and leave behind when run
\* one at a time in the order in which they left their blocks.
C28_RegistryCallsAreAtomic ==
    /\ \A t \in Threads :
          /\ Cardinality({l \in LockNames : rg.lock[l] = t}) <= 1
          /\ rg.th[t].op # "" => rg.lock[LockOf(rg.th[t].op)] = t
          /\ rg.th[t].op = "" => \A l \in LockNames : rg.lock[l] # t
    /\ \A t \in Threads : \A u \in Threads :
          (/\ t # u
           /\ rg.th[t].op # ""
           /\ rg.th[u].op # "")
          => LockOf(rg.th[t].op) # LockOf(rg.th[u].op)
    /\ ReplaysFrom(RegistryIdle.data, 1)

C28_Witness ==
    /\ rg.th[1].op = "unregister_source"
    /\ rg.th[1].seen
    /\ rg.th[2].op = "complete_execution"
    /\ rg.lock = [l \in LockNames |->
                    IF l = "sources" THEN 1 ELSE IF l = "executions" THEN 2
                    ELSE 0]
    /\ Len(rg.history) = 1

\* C31: a key that is not a declared GraphState field, supplied in the
\* initial state of a run, is stored inside the outputs map and is not a
\* top-level field of the state run_workflow hands to the graph.
C31_UnknownKeysLiveInOutputs ==
    status # "Pending" =>
        \A key \in (DOMAIN initial_state) \ GraphStateKeys :
            /\ key \notin DOMAIN state
            /\ key \in DOMAIN state.outputs

\* C32 as stated: the dispatch function returns one of the listed targets,
\* and the first listed target when the intent is empty or when no target
\* equals the intent or is a substring of it.
C32_DefaultsToFirstTarget ==
    rt.called =>
        /\ rt.choice \in Range(rt.targets)
        /\ ( \/ rt.intent = <<>>
             \/ /\ ExactHits(rt.targets, rt.intent) = {}
                /\ TargetInIntent(rt.targets, rt.intent) = {} )
           => rt.choice = rt.targets[1]

\* C32 amended: the dispatch function returns one of the listed targets,
\* and the first listed target when the intent is empty or when no target
\* id equals or contains the intent, case-insensitively.
C32_ListedTargetFirstByDefault ==
    rt.called =>
        /\ rt.choice \in Range(rt.targets)
        /\ ( \/ rt.intent = <<>>
             \/ /\ ExactHits(rt.targets, rt.intent) = {}
                /\ IntentInTarget(rt.targets, rt.intent) = {} )
           => rt.choice = rt.targets[1]

C32_Witness ==
    /\ rt.called
    /\ Len(rt.targets) > 1
    /\ rt.intent # <<>>
    /\ ExactHits(rt.targets, rt.intent) = {}
    /\ IntentInTarget(rt.targets, rt.intent) = {}
    /\ 2 \in TargetInIntent(rt.targets, rt.intent)
    /\ rt.choice = rt.targets[1]

\* the nodes with an edge into the node
Predecessors(spec, id) ==
    {spec.edges[i].from : i \in {j \in 1..Len(spec.edges) :
                                    id \in Range(spec.edges[j].to)}}

\* C33: when an aggregator's write fixes final_output, every branch with an
\* edge into the aggregator has merged its delta into the state the
\* aggregator computed from, whatever the lengths of the branches.
C33_FinalOutputAfterAllBranches ==
    \A i \in 1..Len(writes) :
        ( /\ NodeOf(wf, writes[i].node).type = "aggregator"
          /\ "final_output" \in DOMAIN writes[i].delta
          /\ channels.final_output = PyNone )
        => Predecessors(wf, writes[i].node)
             \subseteq Range(channels.execution_path)

\* the field an llm node writes
LlmOutputKey(node) ==
    IF node.metadata.output_key = "" THEN "text_result"
    ELSE node.metadata.output_key

\* C34: when the deltas of a superstep are merged and one llm step wrote
\* a field in it, the merged state holds in that field the text the step
\* produced, also when an earlier llm step wrote the same field.
C34_LlmFieldHoldsStepText ==
    (status = "Running" /\ active = {}) =>
        \A i \in 1..Len(writes) :
            LET node == NodeOf(wf, writes[i].node)
                key == LlmOutputKey(node)
                merged == ApplyAll(channels, writes)
            IN  ( /\ node.type = "llm"
                  /\ \A j \in 1..Len(writes) :
                        (j # i /\ NodeOf(wf, writes[j].node).type = "llm")
                        => LlmOutputKey(NodeOf(wf, writes[j].node)) # key )
                => IF key \in DOMAIN merged
                     THEN merged[key] = writes[i].result[key]
                   ELSE merged.outputs[key] = writes[i].result.outputs[key]

\* the configuration a spec declares under a source id
DeclaredConfig(spec, source_id) ==
    LET i == CHOOSE j \in 1..Len(spec.sources) :
                 /\ spec.sources[j].id = source_id
                 /\ \A k \in 1..Len(spec.sources) :
                       spec.sources[k].id = source_id => k <= j
    IN  spec.sources[i].config

\* the configuration a step of a compiled graph resolves when it runs now
ResolvedConfig(node) ==
    IF node.type = "db"
      THEN get_db_source_config(bd.registry, node.metadata.source_id)
    ELSE get_llm_source_config(bd.registry, node.metadata.source_id)

\* C35: a step of a compiled workflow that names a source id its spec
\* declares resolves the id to the configuration of its own spec, whatever
\* other spec declaring the id was compiled or run before or after it.
C35_StepsReadTheirOwnSpecConfig ==
    \A i \in 1..Len(bd.calls) :
        LET call == bd.calls[i]
        IN  (call.compiled /\ call.path # "build_endpoint") =>
                \A j \in 1..Len(call.spec.nodes) :
                    LET node == call.spec.nodes[j]
                    IN  ( /\ node.type \in {"llm", "db"}
                          /\ \E k \in 1..Len(call.spec.sources) :
                                call.spec.sources[k].id
                                    = node.metadata.source_id )
                        => ResolvedConfig(node)
                             = DeclaredConfig(call.spec,
                                              node.metadata.source_id)

\* the run of a caller has registered its execution and has not yet called
\* complete_execution
RunInProgress(t) ==
    /\ rg.th[t].within = "run_workflow"
    /\ rg.th[t].op = ""
    /\ Len(rg.th[t].rest) = 1

\* C36: an execution whose run_workflow call is in progress is returned by
\* list_active_executions, also when several runs use the same execution id.
C36_RunsInProgressAreListed ==
    \A t \in Threads :
        (RunInProgress(t) /\ Free("executions")) =>
            Head(rg.th[t].rest).id
                \in list_active_executions(rg.data.executions)

\* C37: the get_source call of a source resolution, made after has_source
\* returned True, returns the source and raises nothing, whatever the other
\* callers do between the two calls.
C37_ResolutionNeverRaises ==
    \A t \in Threads :
        (rg.th[t].within = "resolve_source" /\ rg.th[t].op = "get_source") =>
            lock_body(rg.data,
                      [op |-> rg.th[t].op, id |-> rg.th[t].id,
                       config |-> rg.th[t].config],
                      rg.th[t].seen).result.raised = ""

\* C38: every run of a spec that validate_workflow accepts reaches a
\* terminal status, completed or failed, when every step invocation returns
\* or raises; a spec whose edges form a cycle is among them.
C38_RunsReachTerminalStatus ==
    (validate_workflow(wf) = <<>>) => <>(exec_status \in {"completed", "failed"})

C38_Witness ==
    /\ wf = WorkflowLoop
    /\ validate_workflow(wf) = <<>>
    /\ detect_cycles(wf) # <<>>
    /\ step = recursion_limit
    /\ exec_status = "failed"
    /\ error.cause.class = "GraphRecursionError"

\* the first position of an item in a list, 0 if it is not in it
FirstIndex(seq, item) ==
    IF item \in Range(seq)
      THEN CHOOSE i \in 1..Len(seq) :
               seq[i] = item /\ \A j \in 1..(i - 1) : seq[j] # item
    ELSE 0

\* C39: in a completed run of a validated spec, for every unconditional
\* edge whose source step was executed, every target step of the edge was
\* executed after it, whatever legal id the target has.
C39_UnconditionalTargetRuns ==
    (status = "Succeeded" /\ validate_workflow(wf) = <<>>) =>
        \A i \in 1..Len(wf.edges) :
            ( /\ ~IsConditional(wf, wf.edges[i])
              /\ wf.edges[i].from \in Range(result.execution_path) )
            => \A j \in 1..Len(wf.edges[i].to) :
                  \E k \in 1..Len(result.execution_path) :
                      /\ result.execution_path[k] = wf.edges[i].to[j]
                      /\ k > FirstIndex(result.execution_path,
                                        wf.edges[i].from)

\* C40: run_workflow_batch returns one result per initial state in input
\* order: the final state of the item's run, or an error state if and only if
\* the item's run failed, whatever keyword arguments the caller passes.
C40_BatchResultsFollowTheRuns ==
    bt.returned =>
        /\ Len(bt.results) = Len(bt.initial_states)
        /\ \A i \in 1..Len(bt.results) :
              /\ bt.results[i].user_input
                    = Get(bt.initial_states[i], "user_input", PyStr(<<>>))
              /\ bt.results[i].errors # <<>> <=> bt.runs[i] = "failed"
              /\ bt.results[i].errors = <<>> =>
                    bt.results[i].metadata.execution_id.s
                        = batch_execution_id(bt.kwargs, i - 1)

====
